---------------------------- MODULE Spec2Model ----------------------------
(***************************************************************************)
(* HappyRef: note creation from a Crossref record (createNote) and the     *)
(* "Change Citation Style" flow (changeCitationStyle, updateYAMLFrontmatter)*)
(* of main - Copy (3).ts, with the ISBN command of main - Copy.ts.         *)
(*                                                                         *)
(* Text is modelled as a sequence of atoms (Str).  An atom is a fragment   *)
(* of text that the code's patterns never split: the three-dash delimiter, *)
(* a newline, a key of the metadata block, a word of a value.  String      *)
(* concatenation is \o, and every pattern the code searches for is a       *)
(* sequence of whole atoms.                                                *)
(***************************************************************************)
EXTENDS Integers, Sequences, FiniteSets, TLC

(***************************************************************************)
(* Text helpers                                                            *)
(***************************************************************************)
NL == "\n"
DASH3 == "---"
SLASH == "/"
MD == ".md"
UNDEF == "undefined"

Min(S) == CHOOSE x \in S : \A y \in S : x <= y

MatchAt(s, p, i) ==
    /\ i >= 1
    /\ i + Len(p) - 1 <= Len(s)
    /\ SubSeq(s, i, i + Len(p) - 1) = p

\* String.prototype.indexOf(p, from), 1-based; 0 when p does not occur
IndexOf(s, p, from) ==
    LET I == {i \in from..(Len(s) - Len(p) + 1) : MatchAt(s, p, i)}
    IN IF I = {} THEN 0 ELSE Min(I)

Tail0(s, i) == IF i > Len(s) THEN <<>> ELSE SubSeq(s, i, Len(s))

RECURSIVE Join(_, _)
Join(ss, sep) ==
    IF ss = <<>> THEN <<>>
    ELSE IF Len(ss) = 1 THEN ss[1]
    ELSE ss[1] \o sep \o Join(Tail(ss), sep)

\* folderPath.replace(/\/+$/, '')
RECURSIVE StripTrailingSlashes(_)
StripTrailingSlashes(s) ==
    IF s # <<>> /\ s[Len(s)] = SLASH
    THEN StripTrailingSlashes(SubSeq(s, 1, Len(s) - 1))
    ELSE s

(***************************************************************************)
(* The Crossref record ("message").  has is the set of properties the      *)
(* object carries; a property outside has reads as undefined.              *)
(***************************************************************************)
NoIssued == [hasDP |-> FALSE, dp |-> <<>>]

NoRecord ==
    [has |-> {}, title |-> <<>>, author |-> <<>>, container_title |-> <<>>,
     issued |-> NoIssued, DOI |-> <<>>, URL |-> <<>>, volume |-> <<>>,
     page |-> <<>>, issue |-> <<>>, type |-> <<>>, ISBN |-> <<>>,
     abstract |-> <<>>, date_accessed |-> <<>>,
     published_print |-> NoIssued, published_online |-> NoIssued, created |-> NoIssued]

Has(m, f) == f \in m.has

\* JavaScript truthiness of a string-valued property
TruthyStr(m, f, v) == Has(m, f) /\ v # <<>>

Author(g, f) == [hasGiven |-> TRUE, given |-> g, hasFamily |-> TRUE, family |-> f]
AuthorNoGiven(f) == [hasGiven |-> FALSE, given |-> <<>>, hasFamily |-> TRUE, family |-> f]

\* `${author.given}`, `${author.family}`
GivenStr(a) == IF a.hasGiven THEN a.given ELSE <<UNDEF>>
FamilyStr(a) == IF a.hasFamily THEN a.family ELSE <<UNDEF>>
\* `${author.given?.[0]}`: the first character of the given name
GivenInitial(a) == IF a.hasGiven /\ a.given # <<>> THEN <<a.given[1]>> ELSE <<UNDEF>>

\* message.issued['date-parts'][0][0]; a year of 0 stands for null
YearThrows(m) == ~m.issued.hasDP \/ m.issued.dp = <<>>
YearOf(m) == IF m.issued.dp[1] = <<>> THEN 0 ELSE m.issued.dp[1][1]

\* `${x}` of an optional string property
StrOf(m, f, v) == IF Has(m, f) THEN v ELSE <<UNDEF>>

\* array[0] of an array of strings
First(a) == IF a = <<>> THEN <<UNDEF>> ELSE a[1]


(***************************************************************************)
(* Citation formatting functions.  A formatter returns a string, or throws *)
(* (a TypeError on reading a property of undefined).                       *)
(***************************************************************************)
Ret(t) == [thrown |-> FALSE, text |-> t]
Thrown == [thrown |-> TRUE, text |-> <<>>]

\* a guard that does not look at issued
MissingRequired_noIssued(m) ==
    \/ ~Has(m, "author")
    \/ ~Has(m, "title")
    \/ ~Has(m, "container-title")

\* the first statement of every formatter
MissingRequired(m) ==
    \/ ~Has(m, "author")
    \/ ~Has(m, "issued")
    \/ ~Has(m, "title")
    \/ ~Has(m, "container-title")

MissingData(style) == <<"Could not generate ", style, " citation due to missing data.">>
MissingYear(style) == <<"Could not generate ", style, " citation due to missing year data.">>

YearStr(m) == <<ToString(YearOf(m))>>
TitleStr(m) == First(m.title)
JournalStr(m) == First(m.container_title)
DoiStr(m) == StrOf(m, "DOI", m.DOI)
AccessedStr(m) == StrOf(m, "date-accessed", m.date_accessed)
HasDoi(m) == TruthyStr(m, "DOI", m.DOI)
HasUrl(m) == TruthyStr(m, "URL", m.URL)
HasVolume(m) == TruthyStr(m, "volume", m.volume)
HasIssue(m) == TruthyStr(m, "issue", m.issue)
HasPage(m) == TruthyStr(m, "page", m.page)


FamilyInitial(a) == FamilyStr(a) \o <<", ">> \o GivenInitial(a) \o <<".">>
GivenFamily(a) == GivenStr(a) \o <<" ">> \o FamilyStr(a)

\* authorsArray.map(author => `${author.family}, ${author.given?.[0]}.`).join(', ')
FamilyInitials(as) == Join([i \in 1..Len(as) |-> FamilyInitial(as[i])], <<", ">>)

\* the shape every formatter shares: guard, year read, year check, body
Formatted(m, style, body) ==
    IF MissingRequired(m) THEN Ret(MissingData(style))
    ELSE IF YearThrows(m) THEN Thrown
    ELSE IF YearOf(m) = 0 THEN Ret(MissingYear(style))
    ELSE Ret(body)

formatHarvardCitation(m) ==
    Formatted(m, "Harvard",
        FamilyInitials(m.author) \o <<" (">> \o YearStr(m) \o <<") ">>
        \o TitleStr(m) \o <<". *">> \o JournalStr(m)
        \o <<"*. Available at: [https://doi.org/">> \o DoiStr(m)
        \o <<"] (Accessed: ">> \o AccessedStr(m) \o <<").">>)

VancouverAuthors(as) ==
    LET n == Len(as)
        one(i) == LET s == FamilyStr(as[i]) \o <<" ">> \o GivenInitial(as[i])
                  IN IF n > 3 /\ i = 3 THEN s \o <<", et al">>
                     ELSE IF n <= 3 \/ i <= 3 THEN s \o <<".">>
                     ELSE <<>>
        kept == IF n > 3 THEN 3 ELSE n
    IN Join([i \in 1..kept |-> one(i)], <<" ">>)

formatVancouverCitation(m) ==
    Formatted(m, "Vancouver",
        VancouverAuthors(m.author) \o <<" ">> \o TitleStr(m) \o <<". ">> \o JournalStr(m)
        \o <<". ">> \o YearStr(m) \o <<"; Available from: [https://doi.org/">>
        \o DoiStr(m) \o <<"].">>)

APAAuthors(as) ==
    LET n == Len(as)
    IN IF n = 0 THEN <<>>
       ELSE IF n = 1 THEN FamilyInitial(as[1])
       ELSE IF n = 2 THEN FamilyInitial(as[1]) \o <<" & ">> \o FamilyInitial(as[2])
       ELSE IF n <= 20
       THEN Join([i \in 1..n |-> IF i = n THEN <<"& ">> \o FamilyInitial(as[i])
                                          ELSE FamilyInitial(as[i])], <<", ">>)
       ELSE FamilyInitials(SubSeq(as, 1, 19)) \o <<", ..., ">>
            \o FamilyInitial(as[n])

\* if (doi) ... else if (url) ...
Tail2(m, ifDoi, ifUrl, neither) ==
    IF HasDoi(m) THEN ifDoi ELSE IF HasUrl(m) THEN ifUrl ELSE neither

formatAPACitation(m) ==
    Formatted(m, "APA",
        APAAuthors(m.author) \o <<" (">> \o YearStr(m) \o <<"). ">> \o TitleStr(m)
        \o <<". *">> \o JournalStr(m) \o <<"*,">>
        \o (IF HasVolume(m) THEN <<" *">> \o m.volume \o <<"*">> ELSE <<>>)
        \o (IF HasIssue(m) THEN <<"(">> \o m.issue \o <<")">> ELSE <<>>)
        \o (IF HasPage(m) THEN <<", ">> \o m.page ELSE <<>>)
        \o Tail2(m, <<". ">> \o m.DOI, <<". Retrieved from ">> \o m.URL, <<>>))

ChicagoAuthors(as) ==
    LET n == Len(as)
    IN IF n = 0 THEN <<>>
       ELSE IF n = 1 THEN GivenFamily(as[1])
       ELSE IF n = 2 THEN GivenFamily(as[1]) \o <<" and ">> \o GivenFamily(as[2])
       ELSE IF n = 3 THEN GivenFamily(as[1]) \o <<", ">> \o GivenFamily(as[2])
                          \o <<", and ">> \o GivenFamily(as[3])
       ELSE GivenFamily(as[1]) \o <<" et al.">>

formatChicagoCitation(m) ==
    Formatted(m, "Chicago",
        ChicagoAuthors(m.author) \o <<", ">> \o <<"\"">> \o TitleStr(m) \o <<"\"">>
        \o <<", ">> \o <<"*">> \o JournalStr(m) \o <<"*">>
        \o (IF HasVolume(m) /\ HasIssue(m) /\ HasPage(m)
            THEN <<" ">> \o m.volume \o <<", no. ">> \o m.issue \o <<" (">> \o YearStr(m)
                 \o <<"): ">> \o m.page \o <<".">>
            ELSE IF HasVolume(m)
            THEN <<" ">> \o m.volume \o <<" (">> \o YearStr(m) \o <<").">>
            ELSE <<" (">> \o YearStr(m) \o <<").">>)
        \o Tail2(m, <<" https://doi.org/">> \o m.DOI \o <<".">>,
                    <<" ">> \o m.URL \o <<".">>, <<>>))

\* author.given.split(' '), then ` ${namePart.charAt(0)}.` for each part
RECURSIVE GivenInitials(_, _)
GivenInitials(g, atStart) ==
    IF g = <<>> THEN (IF atStart THEN <<" ", ".">> ELSE <<>>)
    ELSE IF g[1] = " " THEN (IF atStart THEN <<" ", ".">> ELSE <<>>)
                            \o GivenInitials(Tail(g), TRUE)
    ELSE (IF atStart THEN <<" ", g[1], ".">> ELSE <<>>) \o GivenInitials(Tail(g), FALSE)

AMAAuthor(a) ==
    FamilyStr(a) \o (IF a.hasGiven /\ a.given # <<>> THEN GivenInitials(a.given, TRUE) ELSE <<>>)

formatAMACitation(m) ==
    Formatted(m, "AMA",
        Join([i \in 1..Len(m.author) |-> AMAAuthor(m.author[i])], <<", ">>)
        \o <<". ">> \o TitleStr(m) \o <<". *">>
        \o JournalStr(m) \o <<"*.">> \o <<" ">> \o YearStr(m) \o <<";">>
        \o (IF HasVolume(m) THEN m.volume ELSE <<>>)
        \o (IF HasIssue(m) THEN <<"(">> \o m.issue \o <<")">> ELSE <<>>)
        \o (IF HasPage(m) THEN <<":">> \o m.page \o <<".">> ELSE <<".">>)
        \o Tail2(m, <<" doi:">> \o m.DOI,
                    <<" Available at: ">> \o m.URL \o <<". Accessed ">> \o AccessedStr(m),
                    <<>>))

\* volume, issue and pages as the AP and Canadian formatters append them
VolIssuePages(m) ==
    (IF HasVolume(m) THEN <<", ">> \o m.volume ELSE <<>>)
    \o (IF HasIssue(m) THEN <<"(">> \o m.issue \o <<")">> ELSE <<>>)
    \o (IF HasPage(m) THEN <<", ">> \o m.page \o <<".">> ELSE <<".">>)

formatAPCitation(m) ==
    Formatted(m, "AP",
        FamilyInitials(m.author) \o <<" (">> \o YearStr(m) \o <<"). ">>
        \o TitleStr(m) \o <<". _">> \o JournalStr(m) \o <<"_">> \o VolIssuePages(m)
        \o Tail2(m, <<" doi: ">> \o m.DOI, <<" Retrieved from ">> \o m.URL, <<>>))

formatCanadianCitation(m) ==
    Formatted(m, "Canadian",
        Join([i \in 1..Len(m.author) |-> GivenFamily(m.author[i])], <<", and ">>)
        \o <<". ">> \o YearStr(m) \o <<". ">>
        \o TitleStr(m) \o <<". _">> \o JournalStr(m) \o <<"_">> \o VolIssuePages(m)
        \o Tail2(m, <<". doi: ">> \o m.DOI \o <<" [Accessed ">> \o AccessedStr(m) \o <<"].">>,
                    <<". [Online]. Available: ">> \o m.URL \o <<" [Accessed ">>
                        \o AccessedStr(m) \o <<"].">>,
                    <<" [Accessed ">> \o AccessedStr(m) \o <<"].">>))

OxfordAuthors(as) ==
    LET n == Len(as)
    IN IF n = 1 THEN GivenFamily(as[1]) \o <<",">>
       ELSE Join([i \in 1..n |-> IF i < n THEN GivenFamily(as[i]) \o <<",">>
                                          ELSE GivenFamily(as[i])], <<" and ">>)

formatOxfordReferenceCitation(m) ==
    Formatted(m, "Oxford Reference",
        OxfordAuthors(m.author) \o <<" ">> \o <<"lsquo">> \o TitleStr(m) \o <<"rsquo", ",">>
        \o <<" ">> \o <<"*">> \o JournalStr(m) \o <<"*">> \o <<",">>
        \o (IF HasVolume(m) THEN <<" vol. ">> \o m.volume ELSE <<>>)
        \o (IF HasIssue(m) THEN <<", no. ">> \o m.issue ELSE <<>>)
        \o <<" (">> \o YearStr(m) \o <<")">>
        \o (IF HasPage(m) THEN <<", pp. ">> \o m.page ELSE <<>>)
        \o <<".">>
        \o Tail2(m, <<" doi: ">> \o m.DOI,
                    <<" Available at: ">> \o m.URL \o <<" (Accessed ">> \o AccessedStr(m)
                        \o <<")">>,
                    <<>>))

CitationStyles ==
    {"Harvard", "Vancouver", "APA", "Chicago", "AMA", "AP", "Canadian", "Oxford", "None"}

\* the if / else-if chain over the style; a value that is none of the nine
\* (undefined) leaves citationText = ''
FormatCitation(m, style) ==
    CASE style = "Harvard" -> formatHarvardCitation(m)
      [] style = "Vancouver" -> formatVancouverCitation(m)
      [] style = "APA" -> formatAPACitation(m)
      [] style = "Chicago" -> formatChicagoCitation(m)
      [] style = "AMA" -> formatAMACitation(m)
      [] style = "AP" -> formatAPCitation(m)
      [] style = "Canadian" -> formatCanadianCitation(m)
      [] style = "Oxford" -> formatOxfordReferenceCitation(m)
      [] OTHER -> Ret(<<>>)


(***************************************************************************)
(* createNote: the base filename                                           *)
(***************************************************************************)
BadChars == {"/", "\\", "?", "%", "*", ":", "|", "\"", "<", ">"}
WhiteSpace == {" ", NL, "\t"}

\* .replace(/[/\\?%*:|"<>]/g, ' ')
ReplaceBad(s) == [i \in 1..Len(s) |-> IF s[i] \in BadChars THEN " " ELSE s[i]]

RECURSIVE TrimStart(_)
TrimStart(s) == IF s # <<>> /\ s[1] \in WhiteSpace THEN TrimStart(Tail(s)) ELSE s

RECURSIVE TrimEnd(_)
TrimEnd(s) ==
    IF s # <<>> /\ s[Len(s)] \in WhiteSpace THEN TrimEnd(SubSeq(s, 1, Len(s) - 1)) ELSE s

Trim(s) == TrimEnd(TrimStart(s))

\* the replacement without the trim
Sanitize_noTrim(s) == ReplaceBad(s)

\* .replace(/[/\\?%*:|"<>]/g, ' ').trim()
Sanitize(s) == Trim(ReplaceBad(s))

\* x || fallback, for a string x
OrElse(s, fallback) == IF s = <<>> THEN fallback ELSE s

\* d && d['date-parts'] && d['date-parts'][0] && d['date-parts'][0][0]
DateYear(m, f, d) ==
    IF Has(m, f) /\ d.hasDP /\ d.dp # <<>> /\ d.dp[1] # <<>> THEN d.dp[1][1] ELSE 0

\* message.title?.[0] || "Untitled"
TitleOrUntitled(m) ==
    IF Has(m, "title") /\ m.title # <<>> /\ m.title[1] # <<>> THEN m.title[1]
    ELSE <<"Untitled">>

FirstFamily(m) ==
    IF m.author[1].hasFamily /\ m.author[1].family # <<>> THEN m.author[1].family
    ELSE <<"UnknownAuthor">>

AuthorYearFilename(m) ==
    LET yi == DateYear(m, "issued", m.issued)
        yp == DateYear(m, "published-print", m.published_print)
        yo == DateYear(m, "published-online", m.published_online)
        yc == DateYear(m, "created", m.created)
        year == IF yi # 0 THEN yi ELSE IF yp # 0 THEN yp ELSE IF yo # 0 THEN yo ELSE yc
    IN IF year # 0
       THEN Sanitize(FirstFamily(m)
                     \o (IF Len(m.author) > 1 THEN <<" ", "et al">> ELSE <<>>)
                     \o <<" ", "(", ToString(year), ")">>)
       ELSE <<"Untitled">>

FileNameStyles == {"Title", "Author", "Author (Year)"}

BaseFilename(m, fileNameStyle) ==
    CASE fileNameStyle = "Title" ->
            OrElse(Sanitize(TitleOrUntitled(m)), <<"Crossref Note">>)
      [] fileNameStyle = "Author" ->
            IF Has(m, "author") /\ Len(m.author) > 0
            THEN OrElse(Sanitize(FirstFamily(m)), <<"Crossref Note">>)
            ELSE <<"Untitled">>
      [] fileNameStyle = "Author (Year)" ->
            IF Has(m, "author") /\ Len(m.author) > 0
            THEN AuthorYearFilename(m)
            ELSE <<"Untitled">>
      [] OTHER -> <<"Crossref Note">>

(***************************************************************************)
(* createNote: folder and collision-avoiding path                          *)
(***************************************************************************)
NoEntry == [kind |-> "none", content |-> <<>>]
FileEntry(c) == [kind |-> "file", content |-> c]
FolderEntry == [kind |-> "folder", content |-> <<>>]

\* this.app.vault.getAbstractFileByPath(path) on the vault's map v
getAbstractFileByPath(v, path) == IF path \in DOMAIN v THEN v[path] ELSE NoEntry

\* file instanceof TFile
IsTFile(v, path) == getAbstractFileByPath(v, path).kind = "file"

\* the first candidate; folderPath is the value after the folder step
FirstCandidate(hadFolder, folderPath, filename) ==
    IF hadFolder THEN folderPath \o <<SLASH>> \o filename \o <<MD>>
    ELSE filename \o <<MD>>

\* `${baseFilename} (${suffix})`
Suffixed(baseFilename, suffix) == baseFilename \o <<" (", ToString(suffix), ")">>

\* the candidate the loop body builds
LoopCandidate(folderPath, filename) ==
    IF folderPath # <<>>
    THEN StripTrailingSlashes(folderPath) \o <<SLASH>> \o filename \o <<MD>>
    ELSE filename \o <<MD>>

\* let suffix = 1; while (file instanceof TFile) { ...; suffix++ }
RECURSIVE CollisionLoop(_, _, _, _, _)
CollisionLoop(v, folderPath, baseFilename, filePath, suffix) ==
    IF IsTFile(v, filePath)
    THEN LET next == LoopCandidate(folderPath, Suffixed(baseFilename, suffix))
             rest == CollisionLoop(v, folderPath, baseFilename, next, suffix + 1)
         IN [filePath |-> rest.filePath, probes |-> <<filePath>> \o rest.probes]
    ELSE [filePath |-> filePath, probes |-> <<filePath>>]

\* lines 307-315: the path handed to vault.create and the paths probed
ResolvePath(v, hadFolder, folderPath, baseFilename) ==
    CollisionLoop(v, folderPath, baseFilename,
                  FirstCandidate(hadFolder, folderPath, baseFilename), 1)

\* main - Copy.ts: title.replace(/[/\\?%*:|"<>]/g, ' ').trim()
sanitizedTitle(m) == Sanitize(TitleOrUntitled(m))

\* main - Copy.ts: let filename = sanitizedTitle || "Crossref Note"
FilenameCopy(m) == OrElse(sanitizedTitle(m), <<"Crossref Note">>)

\* main - Copy.ts: the first candidate is built on filename, the loop's candidates on
\* sanitizedTitle; the folder is not looked up and not created
ResolvePathCopy(v, folderPath, m) ==
    CollisionLoop(v, folderPath, sanitizedTitle(m),
                  FirstCandidate(folderPath # <<>>, StripTrailingSlashes(folderPath),
                                 FilenameCopy(m)), 1)


(***************************************************************************)
(* createNote: the document text                                           *)
(***************************************************************************)
TAGS == "tags: [CreatedBy/HappyRef]"
CITATION == "## Citation"
ABSTRACT == "## Abstract"
NOABSTRACT == "*There is no abstract in this citation's metadata*"

\* JSON.stringify of one string
RECURSIVE JsonEscape(_)
JsonEscape(s) ==
    IF s = <<>> THEN <<>>
    ELSE (CASE s[1] = "\"" -> <<"\\", "\"">>
            [] s[1] = "\\" -> <<"\\", "\\">>
            [] s[1] = NL -> <<"\\n">>
            [] OTHER -> <<s[1]>>) \o JsonEscape(Tail(s))

JsonString(s) == <<"\"">> \o JsonEscape(s) \o <<"\"">>

\* JSON.stringify(authors)
JsonStringify(ss) == <<"[">> \o Join([i \in 1..Len(ss) |-> JsonString(ss[i])], <<",">>) \o <<"]">>

\* String(n).padStart(2, '0')
Pad2(n) == IF n < 10 THEN "0" \o ToString(n) ELSE ToString(n)

\* `${year}`, with 0 for null
NumStr(n) == IF n = 0 THEN "null" ELSE ToString(n)

\* YYYY[-MM[-DD]] built from date-parts[0]
DateString(parts) ==
    <<IF Len(parts) >= 1 THEN NumStr(parts[1]) ELSE UNDEF>>
    \o (IF Len(parts) >= 2 /\ parts[2] # 0 THEN <<"-", Pad2(parts[2])>> ELSE <<>>)
    \o (IF Len(parts) >= 3 /\ parts[3] # 0 THEN <<"-", Pad2(parts[3])>> ELSE <<>>)

Line(key, value) == <<key>> \o value \o <<NL>>

\* the keyed lines createNote and updateYAMLFrontmatter have in common
CommonLines(m) ==
    (IF Has(m, "container-title") /\ m.container_title # <<>> /\ m.container_title[1] # <<>>
     THEN Line("Journal: ", m.container_title[1]) ELSE <<>>)
    \o (IF HasVolume(m) THEN Line("Volume: ", m.volume) ELSE <<>>)
    \o (IF HasPage(m) THEN Line("Page: ", m.page) ELSE <<>>)
    \o (IF HasIssue(m) THEN Line("Issue: ", m.issue) ELSE <<>>)
    \o (IF Has(m, "issued") /\ m.issued.hasDP /\ m.issued.dp # <<>>
        THEN Line("Publication_Date: ", DateString(m.issued.dp[1])) ELSE <<>>)
    \o (IF HasDoi(m) THEN Line("DOI: ", m.DOI) ELSE <<>>)
    \o (IF TruthyStr(m, "type", m.type) THEN Line("Type: ", m.type) ELSE <<>>)
    \o (IF HasUrl(m) THEN Line("URL: ", m.URL) ELSE <<>>)

AuthorNames(m) == [i \in 1..Len(m.author) |-> GivenFamily(m.author[i])]

\* lines 317-371
CreateFrontmatter(m, accessedDate) ==
    <<DASH3, NL, TAGS, NL>>
    \o (IF Has(m, "author") /\ Len(m.author) > 0
        THEN Line("authors: ", JsonStringify(AuthorNames(m))) ELSE <<>>)
    \o CommonLines(m)
    \o (IF Has(m, "ISBN") THEN Line("ISBN: ", First(m.ISBN)) ELSE <<>>)
    \o Line("Date Accessed: ", <<accessedDate>>)
    \o <<DASH3, NL, NL>>

\* String.prototype.replaceAll(pat, rep) on atoms
RECURSIVE ReplaceAll(_, _, _)
ReplaceAll(s, pat, rep) ==
    IF s = <<>> THEN <<>>
    ELSE IF MatchAt(s, pat, 1) THEN rep \o ReplaceAll(Tail0(s, Len(pat) + 1), pat, rep)
    ELSE <<s[1]>> \o ReplaceAll(Tail(s), pat, rep)

\* lines 409-420; the first replaceAll is called with no replacement argument
SanitizeAbstract(a) ==
    LET a1 == ReplaceAll(a, <<"<jats:title>", "Abstract", "</jats:title>">>, <<UNDEF>>)
        a2 == ReplaceAll(a1, <<"<jats:sec>">>, <<>>)
        a3 == ReplaceAll(a2, <<"</jats:sec>">>, <<>>)
        a4 == ReplaceAll(a3, <<"<jats:title>">>, <<"### ">>)
        a5 == ReplaceAll(a4, <<"</jats:title>">>, <<>>)
        a6 == ReplaceAll(a5, <<"<jats:p>">>, <<>>)
        a7 == ReplaceAll(a6, <<"</jats:p>">>, <<>>)
        a8 == ReplaceAll(a7, <<"<", "\t">>, <<>>)
        a9 == ReplaceAll(a8, <<"<", NL, NL>>, <<NL>>)
    IN ReplaceAll(a9, <<" ", " ">>, <<>>)

\* `## Citation\n${citationText}\n\n---\n\n`
CitationSection(citationText) == <<CITATION, NL>> \o citationText \o <<NL, NL, DASH3, NL, NL>>

AbstractSection(m) ==
    <<ABSTRACT, NL>>
    \o (IF TruthyStr(m, "abstract", m.abstract)
        THEN SanitizeAbstract(m.abstract) \o <<NL>>
        ELSE <<NOABSTRACT, NL>>)

\* the content handed to vault.create, or a throw of the formatter
NoteText(m, cit, accessedDate) ==
    IF cit.thrown THEN Thrown
    ELSE Ret(CreateFrontmatter(m, accessedDate)
             \o <<"# ">> \o TitleOrUntitled(m) \o <<NL, NL>>
             \o (IF cit.text # <<>> THEN CitationSection(cit.text) ELSE <<>>)
             \o AbstractSection(m))

\* lines 317-426
NoteContent(m, citationStyle, accessedDate) ==
    NoteText(m, FormatCitation(m, citationStyle), accessedDate)

\* main - Copy.ts: the formatter reads the clock itself, `${month} ${day}, ${year}`
formatHarvardCitationCopy(m, longDate) ==
    Formatted(m, "Harvard",
        FamilyInitials(m.author) \o <<" (">> \o YearStr(m) \o <<") ">>
        \o TitleStr(m) \o <<". *">> \o JournalStr(m)
        \o <<"*. Available at: [https://doi.org/">> \o DoiStr(m)
        \o <<"] (Accessed: ", longDate, ").">>)

\* main - Copy.ts: Harvard, Vancouver, and '' for any other saved style
FormatCitationCopy(m, style, longDate) ==
    CASE style = "Harvard" -> formatHarvardCitationCopy(m, longDate)
      [] style = "Vancouver" -> formatVancouverCitation(m)
      [] OTHER -> Ret(<<>>)

NoteContentCopy(m, citationStyle, accessedDate, longDate) ==
    NoteText(m, FormatCitationCopy(m, citationStyle, longDate), accessedDate)

(***************************************************************************)
(* changeCitationStyle and updateYAMLFrontmatter: the text transformations *)
(***************************************************************************)
\* a pattern that takes an opening delimiter alone for a block
FrontmatterMatch_unclosed(s) ==
    LET J == {j \in 2..Len(s) : s[j] = DASH3}
    IN IF s # <<>> /\ s[1] = DASH3
       THEN IF J # {}
            THEN [found |-> TRUE, m0 |-> SubSeq(s, 1, Min(J)), m1 |-> SubSeq(s, 2, Min(J) - 1)]
            ELSE [found |-> TRUE, m0 |-> s, m1 |-> Tail(s)]
       ELSE [found |-> FALSE, m0 |-> <<>>, m1 |-> <<>>]

\* fileContent.match(/^---([\s\S]*?)---/)
FrontmatterMatch(s) ==
    LET J == {j \in 2..Len(s) : s[j] = DASH3}
    IN IF s # <<>> /\ s[1] = DASH3 /\ J # {}
       THEN [found |-> TRUE, m0 |-> SubSeq(s, 1, Min(J)), m1 |-> SubSeq(s, 2, Min(J) - 1)]
       ELSE [found |-> FALSE, m0 |-> <<>>, m1 |-> <<>>]

\* the rest of the line that starts with key, or <<>> when no line does
RECURSIVE YamlScalar(_, _, _)
YamlScalar(block, key, atLineStart) ==
    IF block = <<>> THEN <<>>
    ELSE IF atLineStart /\ block[1] = key
    THEN LET e == IndexOf(block, <<NL>>, 2)
         IN IF e = 0 THEN Tail(block) ELSE SubSeq(block, 2, e - 1)
    ELSE YamlScalar(Tail(block), key, block[1] = NL)

\* hand-written structured values the model knows how to load
Y_AUTHOR == "[{given: Yann, family: LeCun}]"
Y_ISSUED == "{date-parts: [[2015]]}"
Y_TITLE == "[Deep Learning]"
Y_JOURNAL == "[Nature]"

\* yaml.load(frontmatterMatch[1]) || {} : the properties the flow reads
YamlLoad(block) ==
    LET val(k) == YamlScalar(block, k, TRUE)
    IN [NoRecord EXCEPT
          !.has = {k \in {"author", "issued", "title", "container-title", "DOI", "URL"} :
                      val(k \o ": ") # <<>>},
          !.author = IF val("author: ") = <<Y_AUTHOR>>
                     THEN <<Author(<<"Y", "ann">>, <<"LeCun">>)>> ELSE <<>>,
          !.issued = IF val("issued: ") = <<Y_ISSUED>>
                     THEN [hasDP |-> TRUE, dp |-> <<<<2015>>>>] ELSE NoIssued,
          !.title = IF val("title: ") = <<Y_TITLE>> THEN <<<<"Deep Learning">>>> ELSE <<>>,
          !.container_title = IF val("container-title: ") = <<Y_JOURNAL>>
                              THEN <<<<"Nature">>>> ELSE <<>>,
          !.DOI = val("DOI: "),
          !.URL = val("URL: ")]


\* lines 527-535: author, issued, title, container-title are all truthy
MetadataComplete(md) == ~MissingRequired(md)

\* lines 443-493: the block updateYAMLFrontmatter generates
NewFrontmatterString(md, accessedDate) ==
    <<DASH3, NL, TAGS, NL>>
    \o (IF Has(md, "author") /\ Len(md.author) > 0
        THEN Line("authors: ", JsonStringify(AuthorNames(md))) ELSE <<>>)
    \o CommonLines(md)
    \o (IF Has(md, "ISBN") /\ md.ISBN # <<>> /\ md.ISBN[1] # <<>>
        THEN Line("ISBN: ", md.ISBN[1]) ELSE <<>>)
    \o (IF TruthyStr(md, "date-accessed", md.date_accessed)
        THEN Line("Date Accessed: ", md.date_accessed)
        ELSE Line("Date Accessed: ", <<accessedDate>>))
    \o <<DASH3>>

\* lines 496-502: the content updateYAMLFrontmatter hands to vault.modify
UpdatedFileContent(fileContent, md, accessedDate) ==
    LET fm == FrontmatterMatch(fileContent)
        new == NewFrontmatterString(md, accessedDate)
    IN IF fm.found THEN new \o Tail0(fileContent, Len(fm.m0) + 1)
       ELSE new \o <<NL>> \o fileContent

\* contentBody.match(/(## Citation\n)([\s\S]*?)(\n---)/)
CitationSectionMatch(contentBody) ==
    LET i == IndexOf(contentBody, <<CITATION, NL>>, 1)
        j == IF i = 0 THEN 0 ELSE IndexOf(contentBody, <<NL, DASH3>>, i + 2)
    IN [found |-> i # 0 /\ j # 0, start |-> i, close |-> j]

\* lines 593-604: updatedContent
ReplaceCitation(contentBody, citationText) ==
    LET cm == CitationSectionMatch(contentBody)
    IN IF cm.found
       THEN SubSeq(contentBody, 1, cm.start - 1) \o <<CITATION, NL>> \o citationText
            \o <<NL, NL, DASH3>> \o Tail0(contentBody, cm.close + 2)
       ELSE contentBody \o <<NL, CITATION, NL>> \o citationText \o <<NL, NL, DASH3>>

\* line 607: `---\n${frontmatterMatch[1]}---\n${updatedContent}`
FinalContent(fm, contentBody, citationText) ==
    <<DASH3, NL>> \o fm.m1 \o <<DASH3, NL>> \o ReplaceCitation(contentBody, citationText)


(***************************************************************************)
(* Bounded inputs                                                          *)
(***************************************************************************)
MaxCreates == 2     \* createNote commands started in one behaviour
MaxChanges == 1     \* Change Citation Style commands started in one behaviour
MaxEdits == 1       \* edits the user makes to a file by hand
MaxTicks == 1       \* days the wall clock advances

Creators == {1}

\* the wall-clock date, YYYY-MM-DD
Date(n) == "2026-11-0" \o ToString(4 + n)

\* the wall-clock date with the month's name
DateLong(n) == "November " \o ToString(4 + n) \o ", 2026"

\* the two revisions of main.ts: main - Copy (3).ts and main - Copy.ts
Revisions == {"Copy3", "Copy"}

B0 == <<"Deep Learning">>
Abstract0 == <<"<jats:title>", "Abstract", "</jats:title>", "<jats:p>", "Text", "</jats:p>">>

R_full ==
    [NoRecord EXCEPT
       !.has = {"title", "author", "container-title", "issued", "DOI", "URL", "volume",
                "page", "type", "abstract"},
       !.title = <<B0>>,
       !.author = <<Author(<<"Y", "ann">>, <<"LeCun">>)>>,
       !.container_title = <<<<"Nature">>>>,
       !.issued = [hasDP |-> TRUE, dp |-> <<<<2015, 5, 28>>>>],
       !.DOI = <<"10.1/x">>, !.URL = <<"http://u">>, !.volume = <<"521">>,
       !.page = <<"436">>, !.type = <<"journal-article">>, !.abstract = Abstract0]

\* no author, no container title, no DOI; a title with a character to sanitize
R_partial ==
    [NoRecord EXCEPT
       !.has = {"title", "issued", "URL", "ISBN"},
       !.title = <<<<"A", ":", "B">>>>,
       !.issued = [hasDP |-> TRUE, dp |-> <<<<2020>>>>],
       !.URL = <<"http://v">>, !.ISBN = <<<<"978">>>>]

\* the four required properties, but issued carries no date-parts
R_nodate ==
    [NoRecord EXCEPT
       !.has = {"title", "author", "container-title", "issued", "DOI"},
       !.title = <<B0>>,
       !.author = <<AuthorNoGiven(<<"Bengio">>), Author(<<"Y", "ann">>, <<"LeCun">>)>>,
       !.container_title = <<<<"Nature">>>>,
       !.DOI = <<"10.1/y">>]

\* a title that is all punctuation
R_symbol ==
    [NoRecord EXCEPT !.has = {"title", "DOI"}, !.title = <<<<"?">>>>, !.DOI = <<"10.1/z">>]

Records == {R_full, R_partial, R_nodate, R_symbol}

\* what a registry request can end in
FailedResponses == {[kind |-> "404"], [kind |-> "500"], [kind |-> "nomessage"]}
Responses(cmd) ==
    {[kind |-> "ok", message |-> r] : r \in Records}
    \cup FailedResponses
    \cup (IF cmd = "isbn" THEN {[kind |-> "empty"]} ELSE {})

Folders == {<<>>, <<"Refs">>, <<"Refs", SLASH>>}

Settings(folder, cstyle, fstyle) ==
    [defaultFolder |-> folder, citationStyle |-> cstyle, fileNameStyle |-> fstyle]

\* DEFAULT_SETTINGS overlaid with the saved settings
SettingsSet ==
    {Settings(<<>>, cs, "Title") : cs \in CitationStyles}
    \cup {Settings(f, "Harvard", fs) : f \in Folders, fs \in FileNameStyles}

\* documents found in the vault at start
HandBlock(doi) ==
    <<DASH3, NL, "author: ", Y_AUTHOR, NL, "issued: ", Y_ISSUED, NL, "title: ", Y_TITLE, NL,
      "container-title: ", Y_JOURNAL, NL>> \o doi \o <<DASH3>>

D_created == NoteContent(R_full, "Harvard", Date(0)).text
D_created_none == NoteContent(R_full, "None", Date(0)).text
D_nofm == <<"# ", "Notes", NL, "free text", NL>>
D_open == <<DASH3, NL, TAGS, NL, NL, "# ", "Notes", NL>>
D_hand ==
    HandBlock(<<"DOI: ", "10.1/x", NL>>)
    \o <<NL, NL, "# ", "Deep Learning", NL, NL, CITATION, NL, "old citation", NL, NL, DASH3,
         NL, NL, "my own notes", NL, ABSTRACT, NL, "Text", NL>>
D_hand_nocit == HandBlock(<<>>) \o <<NL, NL, "# ", "Deep Learning", NL, "my own notes", NL>>
D_nodoi == <<DASH3, NL, TAGS, NL, "Journal: ", "Nature", NL, DASH3, NL, NL, "# ", "Notes", NL>>
D_scalar ==
    <<DASH3, NL, "author: ", Y_AUTHOR, NL, "issued: ", "2015", NL, "title: ", Y_TITLE, NL,
      "container-title: ", Y_JOURNAL, NL, DASH3, NL, NL, "# ", "Deep Learning", NL>>

RootPath(n) == IF n = 0 THEN B0 \o <<MD>> ELSE B0 \o <<" (", ToString(n), ")", MD>>

InitVaults ==
    { <<>>,
      (RootPath(0) :> FileEntry(D_created)) @@ (RootPath(1) :> FileEntry(D_hand))
          @@ (RootPath(2) :> FileEntry(D_nofm)),
      (RootPath(0) :> FileEntry(D_hand_nocit)) @@ (RootPath(2) :> FileEntry(D_nodoi)),
      (<<"Refs">> :> FolderEntry)
          @@ (<<"Refs", SLASH>> \o RootPath(0) :> FileEntry(D_created_none))
          @@ (RootPath(0) :> FileEntry(D_open))
          @@ (<<"Untitled", MD>> :> FileEntry(D_scalar)) }


(***************************************************************************)
(* State                                                                   *)
(***************************************************************************)
VARIABLES
    vault,      \* path -> entry: the files and folders of the vault
    settings,   \* this.settings
    clock,      \* days since the first day
    cn,         \* per fetch command: where it stands and what it holds
    cs,         \* the Change Citation Style command
    counts,     \* commands started and edits made, to bound the behaviours
    fx          \* one call of a function of createNote: its arguments and result

vars == <<vault, settings, clock, cn, cs, counts, fx>>

IdleCn ==
    [pc |-> "idle", cmd |-> "", rev |-> "", message |-> NoRecord, baseFilename |-> <<>>,
     hadFolder |-> FALSE, folderPath |-> <<>>, filePath |-> <<>>, content |-> <<>>,
     probes |-> <<>>, seen |-> {}, resp |-> "", log |-> <<>>,
     typed |-> <<>>, id |-> <<UNDEF>>, apiUrl |-> <<>>]

IdleCs ==
    [pc |-> "idle", file |-> <<>>, newStyle |-> UNDEF, fileContent |-> <<>>,
     metadata |-> NoRecord, refetched |-> FALSE, citationText |-> <<>>,
     pending |-> <<>>, resp |-> "", err |-> "", log |-> <<>>, updContent |-> <<>>,
     typedAt |-> ""]

\* no call under way
IdleFx ==
    [pc |-> "idle", op |-> "", m |-> NoRecord, arg |-> "", thrown |-> FALSE,
     text |-> <<>>, text2 |-> <<>>]

Files(v) == {p \in DOMAIN v : v[p].kind = "file"}

Init ==
    /\ vault \in InitVaults
    /\ settings \in SettingsSet
    /\ clock = 0
    /\ cn = [c \in Creators |-> IdleCn]
    /\ cs = IdleCs
    /\ counts = [creates |-> 0, changes |-> 0, edits |-> 0]
    /\ fx = IdleFx

(***************************************************************************)
(* The fetch commands (by DOI, by ISBN) and createNote                     *)
(***************************************************************************)
\* the command callback: new DOIModal(...).open() / new ISBNModal(...).open();
\* the ISBN command is in main - Copy.ts alone
OpenFetchModal(c, cmd, rev) ==
    /\ cn[c].pc \in {"idle", "done"}
    /\ counts.creates < MaxCreates
    /\ cmd = "isbn" => rev = "Copy"
    /\ cn' = [cn EXCEPT ![c] = [IdleCn EXCEPT !.pc = "modal", !.cmd = cmd, !.rev = rev]]
    /\ counts' = [counts EXCEPT !.creates = @ + 1]
    /\ UNCHANGED <<fx, vault, settings, clock, cs>>

\* the identifiers the user types into the modal: plain, and with the prefix
DOI0 == "10.1/x"
DoiOrgPrefix == "https://doi.org/"
TypedValues(cmd) ==
    IF cmd = "isbn" THEN {<<"978">>, <<"ISBN:", " ", "978">>}
    ELSE {<<DOI0>>, <<DoiOrgPrefix, DOI0>>}

\* .replace(/\s/g, '')
RemoveSpaces(s) ==
    LET NotSpace(x) == x \notin WhiteSpace
    IN SelectSeq(s, NotSpace)

\* the value of the input element after the input listener of main - Copy.ts; in
\* main - Copy (3).ts onChange stores the value as it is
InputValue(rev, cmd, value) ==
    LET v == RemoveSpaces(value)
    IN IF rev = "Copy3" THEN value
       ELSE IF cmd = "isbn"
       THEN (IF v # <<>> /\ v[1] \in {"ISBN:", "ISBN-", "ISBN"} THEN Tail(v) ELSE v)
       ELSE (IF v # <<>> /\ v[1] = DoiOrgPrefix THEN Tail(v) ELSE v)

\* encodeURIComponent: the slash and the colon are escaped
EncodeAtom(x) ==
    CASE x = DOI0 -> "10.1%2Fx"
      [] x = DoiOrgPrefix -> "https%3A%2F%2Fdoi.org%2F"
      [] x = "ISBN:" -> "ISBN%3A"
      [] x = " " -> "%20"
      [] OTHER -> x
encodeURIComponent(s) == [i \in 1..Len(s) |-> EncodeAtom(s[i])]

\* apiUrl of fetchCrossrefData and of fetchCrossrefDataByISBN
ApiUrl(cmd, id) ==
    (IF cmd = "isbn" THEN <<"https://api.crossref.org/works?filter=isbn:">>
     ELSE <<"https://api.crossref.org/works/">>) \o encodeURIComponent(id)

\* the user types or pastes an identifier into the modal's input
TypeIdentifier(c, value) ==
    /\ cn[c].pc = "modal"
    /\ cn[c].typed = <<>>
    /\ value \in TypedValues(cn[c].cmd)
    /\ cn' = [cn EXCEPT ![c].typed = value,
                        ![c].id = InputValue(cn[c].rev, cn[c].cmd, value)]
    /\ UNCHANGED <<fx, vault, settings, clock, cs, counts>>

\* a modal whose onClose goes on to the submit callback
CloseFetchModal_submits(c) ==
    /\ cn[c].pc = "modal"
    /\ cn' = [cn EXCEPT ![c].pc = "fetching", ![c].log = @ \o <<"close", "fetch">>]
    /\ UNCHANGED <<fx, vault, settings, clock, cs, counts>>

\* the modal is closed without the submit button: onClose empties contentEl
CloseFetchModal(c) ==
    /\ cn[c].pc = "modal"
    /\ cn' = [cn EXCEPT ![c].pc = "done", ![c].log = @ \o <<"close">>,
                        ![c].typed = <<>>, ![c].id = <<UNDEF>>]
    /\ UNCHANGED <<fx, vault, settings, clock, cs, counts>>

\* the submit button: this.close(); this.onSubmit(id), up to `await fetch(apiUrl)`.
\* In main - Copy.ts an empty input gets a notice and the modal stays
SubmitFetchModal(c) ==
    /\ cn[c].pc = "modal"
    /\ cn[c].rev = "Copy" => cn[c].typed # <<>> /\ Trim(cn[c].id) # <<>>
    /\ cn' = [cn EXCEPT ![c].pc = "fetching", ![c].log = @ \o <<"fetch">>,
                        ![c].apiUrl = ApiUrl(cn[c].cmd, cn[c].id)]
    /\ UNCHANGED <<fx, vault, settings, clock, cs, counts>>

\* lines 307-430 up to `await this.app.vault.create(filePath, content)`, on vault v
Resolved(r, v, hadFolder, folderPath, log) ==
    LET res == ResolvePath(v, hadFolder, folderPath, r.baseFilename)
        doc == NoteContent(r.message, settings.citationStyle, Date(clock))
    IN IF doc.thrown
       THEN [r EXCEPT !.pc = "done", !.hadFolder = hadFolder, !.folderPath = folderPath,
                      !.probes = res.probes, !.seen = Files(v), !.filePath = res.filePath,
                      !.log = log \o <<"notice:error">>]
       ELSE [r EXCEPT !.pc = "creating", !.hadFolder = hadFolder, !.folderPath = folderPath,
                      !.probes = res.probes, !.seen = Files(v), !.filePath = res.filePath,
                      !.content = doc.text, !.log = log \o <<"create">>]

\* lines 228-305: createNote up to its first await
CreateNoteStart(r, message) ==
    LET named == [r EXCEPT !.message = message,
                           !.baseFilename = BaseFilename(message, settings.fileNameStyle)]
        folderPath == StripTrailingSlashes(settings.defaultFolder)
    IN IF settings.defaultFolder = <<>>
       THEN Resolved(named, vault, FALSE, <<>>, r.log)
       ELSE IF getAbstractFileByPath(vault, folderPath).kind = "none"
       THEN [named EXCEPT !.pc = "mkdir", !.hadFolder = TRUE, !.folderPath = folderPath,
                          !.log = @ \o <<"createFolder">>]
       ELSE Resolved(named, vault, TRUE, folderPath, r.log)

\* main - Copy.ts, createNote up to `await this.app.vault.create(filePath, content)`
CreateNoteCopy(r, message) ==
    LET res == ResolvePathCopy(vault, settings.defaultFolder, message)
        doc == NoteContentCopy(message, settings.citationStyle, Date(clock), DateLong(clock))
        named == [r EXCEPT !.message = message, !.baseFilename = FilenameCopy(message),
                           !.hadFolder = settings.defaultFolder # <<>>,
                           !.folderPath = settings.defaultFolder,
                           !.probes = res.probes, !.seen = Files(vault),
                           !.filePath = res.filePath]
    IN IF doc.thrown
       THEN [named EXCEPT !.pc = "done", !.log = @ \o <<"notice:error">>]
       ELSE [named EXCEPT !.pc = "creating", !.content = doc.text, !.log = @ \o <<"create">>]

\* this.createNote(data.message) of the revision that runs
createNote(r, message) ==
    IF r.rev = "Copy" THEN CreateNoteCopy(r, message) ELSE CreateNoteStart(r, message)

\* a callback that writes a placeholder note when the response carries no record
HandleResponse_placeholder(r, resp) ==
    LET got == [r EXCEPT !.resp = resp.kind]
    IN IF resp.kind = "ok" THEN createNote(got, resp.message)
       ELSE IF resp.kind \in {"404", "500"}
       THEN [got EXCEPT !.pc = "done", !.log = @ \o <<"notice:error">>]
       ELSE createNote([got EXCEPT !.log = @ \o <<"notice:failed">>], NoRecord)

\* the callback once the request has ended: a thrown error is caught and shown, a
\* response without a message is reported, a record goes to createNote
HandleResponse(r, resp) ==
    LET got == [r EXCEPT !.resp = resp.kind]
    IN IF resp.kind = "ok" THEN createNote(got, resp.message)
       ELSE IF resp.kind \in {"404", "500"}
       THEN [got EXCEPT !.pc = "done", !.log = @ \o <<"notice:error">>]
       ELSE [got EXCEPT !.pc = "done", !.log = @ \o <<"notice:failed">>]

\* the registry answers: fetchCrossrefData / fetchCrossrefDataByISBN.  The request
\* and the identifier it was made for are over with it
FetchDone(c, resp) ==
    /\ cn[c].pc = "fetching"
    /\ resp \in Responses(cn[c].cmd)
    /\ LET answered == [cn[c] EXCEPT !.typed = <<>>, !.id = <<UNDEF>>, !.apiUrl = <<>>]
       IN cn' = [cn EXCEPT ![c] = HandleResponse(answered, resp)]
    /\ UNCHANGED <<fx, vault, settings, clock, cs, counts>>

\* lines 295-305: createFolder resolves or rejects, and createNote runs on
CreateFolderDone(c, ok) ==
    /\ cn[c].pc = "mkdir"
    /\ ok => cn[c].folderPath \notin DOMAIN vault
    /\ LET v == IF ok THEN (cn[c].folderPath :> FolderEntry) @@ vault ELSE vault
           folderPath == IF ok THEN cn[c].folderPath ELSE <<>>
           note == IF ok THEN "notice:folder" ELSE "notice:nofolder"
       IN /\ vault' = v
          /\ cn' = [cn EXCEPT ![c] = Resolved(cn[c], v, TRUE, folderPath,
                                              cn[c].log \o <<note>>)]
    /\ UNCHANGED <<fx, settings, clock, cs, counts>>

\* the host's normalizePath: no leading slash
RECURSIVE NormalizePath(_)
NormalizePath(path) ==
    IF path # <<>> /\ path[1] = SLASH THEN NormalizePath(Tail(path)) ELSE path

\* the folder part of a path, <<>> for a path in the root
RECURSIVE ParentOf(_)
ParentOf(path) ==
    IF path = <<>> THEN <<>>
    ELSE IF path[Len(path)] = SLASH THEN SubSeq(path, 1, Len(path) - 1)
    ELSE ParentOf(SubSeq(path, 1, Len(path) - 1))

\* line 429 resolves or rejects (the file exists, or its folder does not), and the
\* callback ends
CreateDone(c) ==
    /\ cn[c].pc = "creating"
    /\ LET path == NormalizePath(cn[c].filePath)
           parent == ParentOf(path)
       IN IF path \in DOMAIN vault
             \/ (parent # <<>> /\ getAbstractFileByPath(vault, parent).kind # "folder")
          THEN /\ cn' = [cn EXCEPT ![c].pc = "done", ![c].log = @ \o <<"notice:error">>]
               /\ UNCHANGED vault
          ELSE /\ vault' = (path :> FileEntry(cn[c].content)) @@ vault
               /\ cn' = [cn EXCEPT ![c].pc = "done",
                                   ![c].log = @ \o <<"created", "open", "notice:success">>]
    /\ UNCHANGED <<fx, settings, clock, cs, counts>>


(***************************************************************************)
(* The Change Citation Style command                                       *)
(***************************************************************************)
\* the editorCallback on the active file: new CitationStyleModal(...).open()
OpenStyleModal(file) ==
    /\ cs.pc \in {"idle", "done"}
    /\ counts.changes < MaxChanges
    /\ file \in Files(vault)
    /\ cs' = [IdleCs EXCEPT !.pc = "modal", !.file = file]
    /\ counts' = [counts EXCEPT !.changes = @ + 1]
    /\ UNCHANGED <<fx, vault, settings, clock, cn>>

\* dropdown.onChange: this.newStyle = value
SelectStyle(style) ==
    /\ cs.pc = "modal"
    /\ style \in CitationStyles
    /\ cs.newStyle # style
    /\ cs' = [cs EXCEPT !.newStyle = style]
    /\ UNCHANGED <<fx, vault, settings, clock, cn, counts>>

CloseStyleModal ==
    /\ cs.pc = "modal"
    /\ cs' = [cs EXCEPT !.pc = "done", !.err = "closed", !.log = @ \o <<"close">>]
    /\ UNCHANGED <<fx, vault, settings, clock, cn, counts>>

\* the button: this.close(); this.onSubmit(this.newStyle), up to `await vault.read(file)`
SubmitStyleModal ==
    /\ cs.pc = "modal"
    /\ cs' = [cs EXCEPT !.pc = "reading", !.log = @ \o <<"read">>]
    /\ UNCHANGED <<fx, vault, settings, clock, cn, counts>>

\* the callback's catch: console.error and new Notice(`Failed to change citation style`)
Failed(r, err) == [r EXCEPT !.pc = "done", !.err = err, !.log = @ \o <<"notice:failed">>]

\* lines 570-607, up to the await of vault.modify: the citation for newStyle and the
\* final content, built on the frontmatter and the body read at the start
Finalize(r, md) ==
    LET cit == FormatCitation(md, r.newStyle)
        fm == FrontmatterMatch(r.fileContent)
        contentBody == Tail0(r.fileContent, Len(fm.m0) + 1)
    IN IF cit.thrown THEN Failed(r, "FormatThrew")
       ELSE [r EXCEPT !.pc = "writing", !.metadata = md, !.citationText = cit.text,
                      !.pending = FinalContent(fm, contentBody, cit.text),
                      !.log = @ \o <<"modify">>]

\* a flow that re-fetches without looking for the stored DOI
Decide_noDoiCheck(r, fileContent) ==
    LET fm == FrontmatterMatch(fileContent)
        md == YamlLoad(fm.m1)
        got == [r EXCEPT !.fileContent = fileContent]
    IN IF ~fm.found THEN Failed(got, "NoFrontmatter")
       ELSE IF MetadataComplete(md) THEN Finalize(got, md)
       ELSE [got EXCEPT !.pc = "fetching", !.metadata = md, !.log = @ \o <<"fetch">>]

\* lines 511-567: the file is read; frontmatter, completeness, DOI
Decide(r, fileContent) ==
    LET fm == FrontmatterMatch(fileContent)
        md == YamlLoad(fm.m1)
        got == [r EXCEPT !.fileContent = fileContent]
    IN IF ~fm.found THEN Failed(got, "NoFrontmatter")
       ELSE IF MetadataComplete(md) THEN Finalize(got, md)
       ELSE IF HasDoi(md)
       THEN [got EXCEPT !.pc = "fetching", !.metadata = md, !.log = @ \o <<"fetch">>]
       ELSE Failed(got, "MissingDoi")

ReadDone ==
    /\ cs.pc = "reading"
    /\ cs' = Decide(cs, vault[cs.file].content)
    /\ UNCHANGED <<fx, vault, settings, clock, cn, counts>>

\* a flow that asks the registry once more after a failed answer
HandleReFetch_retry(r, resp, accessedDate) ==
    LET got == [r EXCEPT !.resp = resp.kind]
        asked == Cardinality({i \in DOMAIN r.log : r.log[i] = "fetch"})
    IN IF resp.kind = "ok"
       THEN [got EXCEPT !.pc = "upd_reading", !.refetched = TRUE,
                        !.metadata = [resp.message EXCEPT
                                         !.has = @ \cup {"date-accessed"},
                                         !.date_accessed = <<accessedDate>>],
                        !.log = @ \o <<"read">>]
       ELSE IF asked < 2 THEN [got EXCEPT !.pc = "fetching", !.log = @ \o <<"fetch">>]
       ELSE Failed(got, "RefetchFailed")

\* lines 542-563: the answer to the re-fetch, up to the read of updateYAMLFrontmatter
HandleReFetch(r, resp, accessedDate) ==
    LET got == [r EXCEPT !.resp = resp.kind]
    IN IF resp.kind = "ok"
       THEN [got EXCEPT !.pc = "upd_reading", !.refetched = TRUE,
                        !.metadata = [resp.message EXCEPT
                                         !.has = @ \cup {"date-accessed"},
                                         !.date_accessed = <<accessedDate>>],
                        !.log = @ \o <<"read">>]
       ELSE Failed(got, "RefetchFailed")

ReFetchDone(resp) ==
    /\ cs.pc = "fetching"
    /\ resp \in Responses("doi")
    /\ cs' = HandleReFetch(cs, resp, Date(clock))
    /\ UNCHANGED <<fx, vault, settings, clock, cn, counts>>

\* updateYAMLFrontmatter, lines 436-498: the file is read again and the block replaced
UpdateReadDone ==
    /\ cs.pc = "upd_reading"
    /\ cs' = [cs EXCEPT !.pc = "upd_writing",
                        !.updContent = vault[cs.file].content,
                        !.pending = UpdatedFileContent(vault[cs.file].content, cs.metadata,
                                                       Date(clock)),
                        !.log = @ \o <<"modify">>]
    /\ UNCHANGED <<fx, vault, settings, clock, cn, counts>>

\* the modify of updateYAMLFrontmatter lands; lines 556-607 run up to the last modify
UpdateWriteDone ==
    /\ cs.pc = "upd_writing"
    /\ vault' = [vault EXCEPT ![cs.file] = FileEntry(cs.pending)]
    /\ cs' = Finalize([cs EXCEPT !.log = @ \o <<"modified", "notice:refetched">>],
                      cs.metadata)
    /\ UNCHANGED <<fx, settings, clock, cn, counts>>

\* line 607 lands, and the callback shows `Citation style updated`
WriteDone ==
    /\ cs.pc = "writing"
    /\ vault' = [vault EXCEPT ![cs.file] = FileEntry(cs.pending)]
    /\ cs' = [cs EXCEPT !.pc = "done", !.err = "",
                        !.log = @ \o <<"modified", "notice:updated">>]
    /\ UNCHANGED <<fx, settings, clock, cn, counts>>

(***************************************************************************)
(* The environment                                                         *)
(***************************************************************************)
\* the user types at the end of the note while the command is at work on it
UserEdit(file) ==
    /\ counts.edits < MaxEdits
    /\ file \in Files(vault)
    /\ cs.pc \notin {"idle", "modal", "done"} /\ file = cs.file
    /\ vault' = [vault EXCEPT ![file] = FileEntry(@.content \o <<"user edit", NL>>)]
    /\ counts' = [counts EXCEPT !.edits = @ + 1]
    /\ cs' = [cs EXCEPT !.typedAt = cs.pc]
    /\ UNCHANGED <<fx, settings, clock, cn>>

\* the user deletes the first line of the note while the command is at work on it
UserCut(file) ==
    /\ counts.edits < MaxEdits
    /\ file \in Files(vault)
    /\ cs.pc \notin {"idle", "modal", "done"} /\ file = cs.file
    /\ vault[file].content # <<>>
    /\ vault' = [vault EXCEPT ![file] = FileEntry(Tail(@.content))]
    /\ counts' = [counts EXCEPT !.edits = @ + 1]
    /\ UNCHANGED <<fx, settings, clock, cn, cs>>

\* midnight
Tick ==
    /\ clock < MaxTicks
    /\ clock' = clock + 1
    /\ UNCHANGED <<fx, vault, settings, cn, cs, counts>>

\* the fetch commands, with the user typing one of values
FetchCommandBy(creators, values) ==
    \E c \in creators :
        \/ \E cmd \in {"doi", "isbn"}, rev \in Revisions : OpenFetchModal(c, cmd, rev)
        \/ \E value \in values : TypeIdentifier(c, value)
        \/ CloseFetchModal(c)
        \/ SubmitFetchModal(c)
        \/ \E resp \in Responses(cn[c].cmd) : FetchDone(c, resp)
        \/ \E ok \in BOOLEAN : CreateFolderDone(c, ok)
        \/ CreateDone(c)

FetchCommandOn(values) == FetchCommandBy(Creators, values)

PlainIdentifiers == {<<DOI0>>, <<"978">>}
FetchCommand == FetchCommandOn(TypedValues("doi") \cup TypedValues("isbn"))

StyleCommandOn(styles) ==
    \/ \E file \in DOMAIN vault : OpenStyleModal(file)
    \/ \E style \in styles : SelectStyle(style)
    \/ CloseStyleModal
    \/ SubmitStyleModal
    \/ ReadDone
    \/ \E resp \in Responses("doi") : ReFetchDone(resp)
    \/ UpdateReadDone
    \/ UpdateWriteDone
    \/ WriteDone

StyleCommand == StyleCommandOn(CitationStyles)

\* what the user does to a note outside the plugin
UserChange ==
    \/ \E file \in DOMAIN vault : UserEdit(file)
    \/ \E file \in DOMAIN vault : UserCut(file)

Environment == UserChange \/ Tick

Next == FetchCommand \/ StyleCommand \/ Environment

Spec == Init /\ [][Next]_vars


\* the fetch commands alone, from every saved setting and every starting vault, with
\* identifiers typed in their plain form
SpecCreate == Init /\ [][FetchCommandOn(PlainIdentifiers) \/ Tick]_vars

DEFAULT_SETTINGS == Settings(<<>>, "Harvard", "Title")

\* the Change Citation Style command alone, with the user and the clock around it
InitChange == Init /\ settings = DEFAULT_SETTINGS
StyleChoices == {"Harvard", "APA", "None"}
SpecChange ==
    InitChange /\ [][StyleCommandOn(StyleChoices) \/ UserChange]_vars

\* one kind of command in a behaviour, fetch commands or the style command: the other
\* kind has none left to start.  From the default settings and from settings that
\* name a folder
ModalSettings == {DEFAULT_SETTINGS, Settings(<<"Refs">>, "Harvard", "Title")}
InitModal ==
    /\ vault \in InitVaults
    /\ settings \in ModalSettings
    /\ clock = 0
    /\ cn = [c \in Creators |-> IdleCn]
    /\ cs = IdleCs
    /\ counts \in {[creates |-> 0, changes |-> MaxChanges, edits |-> 0],
                   [creates |-> MaxCreates, changes |-> 0, edits |-> 0]}
    /\ fx = IdleFx
SpecModal == InitModal /\ [][FetchCommand \/ StyleCommandOn(StyleChoices)]_vars


(***************************************************************************)
(* The functions of createNote and the formatters, called one at a time on *)
(* records whose properties are present or absent independently            *)
(***************************************************************************)
A_full == Author(<<"Y", "ann">>, <<"LeCun">>)
A_nogiven == AuthorNoGiven(<<"Bengio">>)
A_nofamily == [hasGiven |-> TRUE, given |-> <<"G", "eoff">>, hasFamily |-> FALSE, family |-> <<>>]
A_symbol == Author(<<"J">>, <<"?">>)
A_slash == Author(<<"S">>, <<" ", "O", "/", "Neil", ":">>)

\* message.author, when the record has one
AuthorChoices ==
    { <<>>, <<A_full>>, <<A_nofamily>>, <<A_symbol>>, <<A_nogiven, A_full>>,
      <<A_slash, A_nofamily, A_full>> }

\* message.issued, when the record has one: no date-parts, [], [[]], [[y]], [[y, m, d]]
IssuedChoices ==
    { NoIssued,
      [hasDP |-> TRUE, dp |-> <<>>],
      [hasDP |-> TRUE, dp |-> << <<>> >>],
      [hasDP |-> TRUE, dp |-> << <<2015>> >>],
      [hasDP |-> TRUE, dp |-> << <<2015, 5, 28>> >>] }

\* message.title, when the record has one
TitleChoices == { <<>>, <<B0>>, << <<"?">> >>, << <<" ", "A", ":", "B">> >> }

\* message.ISBN, when the record has one
ISBNChoices == { <<>>, << <<"978">> >> }

\* v when the property is among the present ones, the absent value otherwise
Opt(present, f, choices, absent) == IF f \in present THEN choices ELSE {absent}

OptionalProperties ==
    {"author", "issued", "title", "container-title", "DOI", "URL", "ISBN", "volume",
     "date-accessed"}

\* volume, issue and page come together
WithVolume(present) ==
    IF "volume" \in present THEN present \cup {"issue", "page"} ELSE present

\* the records that carry exactly the properties of present
CallRecords(present) ==
    { [NoRecord EXCEPT
         !.has = WithVolume(present),
         !.author = a, !.issued = i, !.title = t, !.ISBN = n,
         !.container_title = IF "container-title" \in present
                             THEN << <<"Nature">> >> ELSE <<>>,
         !.DOI = IF "DOI" \in present THEN <<"10.1/x">> ELSE <<>>,
         !.URL = IF "URL" \in present THEN <<"http://u">> ELSE <<>>,
         !.volume = IF "volume" \in present THEN <<"521">> ELSE <<>>,
         !.issue = IF "volume" \in present THEN <<"7553">> ELSE <<>>,
         !.page = IF "volume" \in present THEN <<"436">> ELSE <<>>,
         !.date_accessed = IF "date-accessed" \in present THEN <<Date(0)>> ELSE <<>>]
      : a \in Opt(present, "author", AuthorChoices, <<>>),
        i \in Opt(present, "issued", IssuedChoices, NoIssued),
        t \in Opt(present, "title", TitleChoices, <<>>),
        n \in Opt(present, "ISBN", ISBNChoices, <<>>) }

\* message.abstract as the registry sends it
AbstractChoices ==
    { Abstract0,
      <<"<jats:title>", "Abstract", "</jats:title>", "<jats:p>", "One", "</jats:p>",
        "<jats:p>", "Two", "</jats:p>">>,
      <<"<jats:p>", "Text", "</jats:p>">>,
      <<"<jats:sec>", "<jats:title>", "Methods", "</jats:title>", "<jats:p>", "Text",
        "</jats:p>", "</jats:sec>">>,
      <<"Plain">> }

AbstractRecords ==
    { [R_full EXCEPT !.abstract = a] : a \in AbstractChoices }

InitCall ==
    /\ vault = <<>>
    /\ settings = DEFAULT_SETTINGS
    /\ clock = 0
    /\ cn = [c \in Creators |-> IdleCn]
    /\ cs = IdleCs
    /\ counts = [creates |-> 0, changes |-> 0, edits |-> 0]
    /\ \E present \in SUBSET OptionalProperties :
           \E m \in CallRecords(present) \cup AbstractRecords :
               fx = [IdleFx EXCEPT !.pc = "args", !.m = m]

Returned(op, arg, res, text2) ==
    [fx EXCEPT !.pc = "returned", !.op = op, !.arg = arg, !.thrown = res.thrown,
               !.text = res.text, !.text2 = text2]

\* lines 377-399: the formatter of the style is called on the record
ApplyFormatCitation(style) ==
    /\ fx.pc = "args"
    /\ fx' = Returned("FormatCitation", style, FormatCitation(fx.m, style), <<>>)
    /\ UNCHANGED <<vault, settings, clock, cn, cs, counts>>

\* lines 229-283: the base filename of the style is built from the record
ApplyBaseFilename(fileNameStyle) ==
    /\ fx.pc = "args"
    /\ fx' = Returned("BaseFilename", fileNameStyle,
                      Ret(BaseFilename(fx.m, fileNameStyle)), <<>>)
    /\ UNCHANGED <<vault, settings, clock, cn, cs, counts>>

\* lines 324-371 and 443-493: both generators of the metadata block run on the
\* record, on the same day
ApplyFrontmatter ==
    /\ fx.pc = "args"
    /\ fx' = Returned("Frontmatter", "", Ret(CreateFrontmatter(fx.m, Date(clock))),
                      NewFrontmatterString(fx.m, Date(clock)))
    /\ UNCHANGED <<vault, settings, clock, cn, cs, counts>>

\* lines 407-426: the abstract section is built from the record
ApplyAbstractSection ==
    /\ fx.pc = "args"
    /\ Has(fx.m, "abstract")
    /\ fx' = Returned("AbstractSection", "", Ret(AbstractSection(fx.m)), <<>>)
    /\ UNCHANGED <<vault, settings, clock, cn, cs, counts>>

Apply ==
    \/ \E style \in CitationStyles : ApplyFormatCitation(style)
    \/ \E fileNameStyle \in FileNameStyles : ApplyBaseFilename(fileNameStyle)
    \/ ApplyFrontmatter
    \/ ApplyAbstractSection

SpecCall == InitCall /\ [][Apply]_vars

\* the fetch commands on vaults that earlier runs of the command have filled: the
\* notes `Crossref Note.md` and ` (1).md` are those that two runs of main - Copy.ts
\* on a title without a usable character leave behind
LeftBehind ==
    (<<"Crossref Note", MD>> :> FileEntry(D_created)) @@ (<<" (", "1", ")", MD>> :> FileEntry(D_hand))
InitProbe ==
    /\ vault \in InitVaults \cup {LeftBehind}
    /\ settings \in ModalSettings
    /\ clock = 0
    /\ cn = [c \in Creators |-> IdleCn]
    /\ cs = IdleCs
    /\ counts = [creates |-> 0, changes |-> 0, edits |-> 0]
    /\ fx = IdleFx
SpecProbe == InitProbe /\ [][FetchCommandOn(PlainIdentifiers)]_vars

\* two fetch commands at work at the same time: the callback of the second dialog
\* may run while the first one waits for the registry, createFolder or vault.create
Overlapping == {1, 2}
InitOverlap ==
    /\ vault \in InitVaults
    /\ settings \in ModalSettings
    /\ clock = 0
    /\ cn = [c \in Overlapping |-> IdleCn]
    /\ cs = IdleCs
    /\ counts = [creates |-> 0, changes |-> 0, edits |-> 0]
    /\ fx = IdleFx
SpecOverlap == InitOverlap /\ [][FetchCommandBy(Overlapping, PlainIdentifiers)]_vars


(***************************************************************************)
(* Properties                                                              *)
(***************************************************************************)
Range(f) == {f[i] : i \in DOMAIN f}
Count(f, x) == Cardinality({i \in DOMAIN f : f[i] = x})
Notices == {"notice:error", "notice:failed", "notice:success", "notice:updated"}
Surfaced(log) == Range(log) \cap Notices # {}

\* createFolder was asked for and failed in this run
FellBack(r) == "notice:nofolder" \in Range(r.log)

\* F/B.md for n = 0 and F/B (n).md for n >= 1; B.md and B (n).md in the root
Cand(folder, base, n) ==
    (IF folder = <<>> THEN <<>> ELSE folder \o <<"/">>)
    \o base \o (IF n = 0 THEN <<>> ELSE <<" (", ToString(n), ")">>) \o <<".md">>

TargetFolder == StripTrailingSlashes(settings.defaultFolder)

\* C1: the path createNote hands to vault.create is F/B.md when no file is there,
\* and otherwise F/B (n).md for the smallest n >= 1 at which no file is; F is the
\* configured folder, in every run whose folder step did not fall back
C1_SmallestFreeSuffix ==
    \A c \in Creators :
        LET r == cn[c]
            ex(n) == Cand(TargetFolder, r.baseFilename, n) \in r.seen
        IN ("create" \in Range(r.log) /\ ~FellBack(r)) =>
              \/ ~ex(0) /\ r.filePath = Cand(TargetFolder, r.baseFilename, 0)
              \/ /\ ex(0)
                 /\ \E n \in 1..(Cardinality(r.seen) + 1) :
                       /\ r.filePath = Cand(TargetFolder, r.baseFilename, n)
                       /\ ~ex(n)
                       /\ \A k \in 1..(n - 1) : ex(k)

\* main - Copy.ts, a title that sanitizes to nothing: Crossref Note.md exists and
\* the path handed to vault.create is " (1).md"
C1_Witness ==
    \E c \in Creators :
        /\ cn[c].rev = "Copy" /\ "create" \in Range(cn[c].log)
        /\ cn[c].baseFilename = <<"Crossref Note">>
        /\ Cand(<<>>, <<"Crossref Note">>, 0) \in cn[c].seen
        /\ cn[c].filePath = <<" (", "1", ")", ".md">>

(***************************************************************************)
(* The change-style flow                                                   *)
(***************************************************************************)
\* the first read of the run has returned
ReadHappened == cs.pc \notin {"idle", "modal", "reading"} /\ "read" \in Range(cs.log)

\* the run ended with `Citation style updated`
Succeeded == cs.pc = "done" /\ cs.err = "" /\ "notice:updated" \in Range(cs.log)

\* the user picked a style in the dialog
Chosen == cs.newStyle \in CitationStyles

\* the text between `## Citation\n` and the next `\n---` of a document
CitationTextOf(doc) ==
    LET cm == CitationSectionMatch(doc)
    IN SubSeq(doc, cm.start + 2, cm.close - 1)

\* C2: after a successful run that re-fetched the record, the metadata block of the
\* file as finally written is the block regenerated from the re-fetched record, and
\* the citation section holds the citation formatted from that record
C2_FinalBlockIsRegenerated ==
    (Succeeded /\ Chosen /\ cs.refetched) =>
        /\ FrontmatterMatch(cs.pending).m0 = NewFrontmatterString(cs.metadata, Date(clock))
        /\ CitationSectionMatch(cs.pending).found
        /\ CitationTextOf(cs.pending) = FormatCitation(cs.metadata, cs.newStyle).text

\* the run re-fetched, and what it wrote last carries the block it read first
C2_Witness ==
    LET old == FrontmatterMatch(cs.fileContent).m1
    IN /\ Succeeded /\ Chosen /\ cs.refetched
       /\ FrontmatterMatch(cs.pending).m1 = <<NL>> \o old
       /\ "Journal: " \in Range(old)

\* C3: no modification of the file lands before the final write of the run, and a
\* successful run performs exactly one write
C3_SingleWriteAtRewritten ==
    /\ cs.pc \notin {"idle", "done"} => Count(cs.log, "modified") = 0
    /\ Succeeded => Count(cs.log, "modified") = 1

\* updateYAMLFrontmatter has written and the final write is still to come
C3_Witness ==
    /\ cs.pc = "writing" /\ cs.refetched
    /\ Count(cs.log, "modified") = 1 /\ "notice:updated" \notin Range(cs.log)

\* C4: on a document with a metadata block, complete metadata and a Citation span,
\* the document written equals the document read up to and including `## Citation\n`
\* and from the closing `\n---` of the span on
C4_OnlyCitationTextDiffers ==
    LET read == cs.fileContent
        written == cs.pending
        cmR == CitationSectionMatch(read)
        cmW == CitationSectionMatch(written)
    IN (Succeeded /\ Chosen /\ ~cs.refetched /\ cmR.found) =>
          /\ cmW.found
          /\ SubSeq(written, 1, cmW.start + 1) = SubSeq(read, 1, cmR.start + 1)
          /\ Tail0(written, cmW.close) = Tail0(read, cmR.close)

\* no re-fetch, a Citation span, and a blank line put under the opening delimiter
C4_Witness ==
    /\ Succeeded /\ Chosen /\ ~cs.refetched
    /\ CitationSectionMatch(cs.fileContent).found
    /\ SubSeq(cs.fileContent, 1, 3) = <<DASH3, NL, "author: ">>
    /\ SubSeq(cs.pending, 1, 4) = <<DASH3, NL, NL, "author: ">>

\* C5: on a document with no Citation span the run does not fail for that, and the
\* document written is the document read followed by a new Citation section
C5_AppendKeepsOriginalPrefix ==
    LET read == cs.fileContent
        written == cs.pending
    IN (Succeeded /\ Chosen /\ ~cs.refetched /\ ~CitationSectionMatch(read).found) =>
          /\ Len(written) > Len(read)
          /\ SubSeq(written, 1, Len(read)) = read
          /\ CITATION \in Range(Tail0(written, Len(read) + 1))

\* no Citation span: the section is appended, the text before it is not the original
C5_Witness ==
    /\ Succeeded /\ Chosen /\ ~cs.refetched
    /\ ~CitationSectionMatch(cs.fileContent).found
    /\ CitationSectionMatch(cs.pending).found
    /\ SubSeq(cs.pending, 1, Len(cs.fileContent)) # cs.fileContent

\* a `## Citation` heading with nothing under it
EmptyCitationIn(doc) == \E i \in DOMAIN doc : MatchAt(doc, <<CITATION, NL, NL>>, i)

\* C6: no document written by createNote or by changeCitationStyle has a Citation
\* heading with an empty citation text, and with style None it has no such heading
C6_NoEmptyCitationSection ==
    /\ \A c \in Creators :
          "create" \in Range(cn[c].log) =>
             /\ ~EmptyCitationIn(cn[c].content)
             /\ settings.citationStyle = "None" => CITATION \notin Range(cn[c].content)
    /\ (Succeeded /\ Chosen) =>
          /\ ~EmptyCitationIn(cs.pending)
          /\ cs.newStyle = "None" => CITATION \notin Range(cs.pending)

\* style None was picked and the document written has an empty Citation section
C6_Witness == Succeeded /\ cs.newStyle = "None" /\ EmptyCitationIn(cs.pending)

\* C7: once the file is read and its content does not start with a delimited block,
\* the run has ended in an error shown to the user, with no fetch and no modify
C7_NoFrontmatterAborts ==
    LET s == cs.fileContent
        delimited == s # <<>> /\ s[1] = "---" /\ \E j \in 2..Len(s) : s[j] = "---"
    IN (ReadHappened /\ ~delimited) =>
          /\ cs.pc = "done" /\ cs.err = "NoFrontmatter"
          /\ "notice:failed" \in Range(cs.log)
          /\ Range(cs.log) \cap {"fetch", "modify", "modified"} = {}
          /\ counts.edits = 0 => vault[cs.file].content = s

\* a note that opens a block and never closes it was refused and is as it was
C7_Witness ==
    /\ cs.pc = "done" /\ cs.err = "NoFrontmatter"
    /\ cs.fileContent = D_open
    /\ vault[cs.file].content = D_open

FailedKinds == {"404", "500", "nomessage"}

\* C8: with a required property missing, a run that finds no DOI, or whose fetch
\* fails or brings no record, ends in MissingDoi resp. RefetchFailed, shows the
\* failure, and has not modified the file
C8_TerminalFailuresLeaveFile ==
    LET md == YamlLoad(FrontmatterMatch(cs.fileContent).m1)
        incomplete == /\ ReadHappened
                      /\ FrontmatterMatch(cs.fileContent).found
                      /\ \E f \in {"author", "issued", "title", "container-title"} : ~Has(md, f)
        shown == cs.pc = "done" /\ "notice:failed" \in Range(cs.log)
        untouched == /\ Range(cs.log) \cap {"modify", "modified"} = {}
                     /\ counts.edits = 0 => vault[cs.file].content = cs.fileContent
    IN /\ (incomplete /\ ~Has(md, "DOI")) =>
             (shown /\ cs.err = "MissingDoi" /\ untouched /\ "fetch" \notin Range(cs.log))
       /\ (incomplete /\ cs.resp \in FailedKinds) =>
             (shown /\ cs.err = "RefetchFailed" /\ untouched)

\* the registry answered without a record and the note is as it was
C8_Witness ==
    /\ cs.pc = "done" /\ cs.err = "RefetchFailed" /\ cs.resp = "nomessage"
    /\ counts.edits = 0
    /\ vault[cs.file].content = cs.fileContent

(***************************************************************************)
(* The fetch commands                                                      *)
(***************************************************************************)
\* C9: after createFolder failed, the first candidate, every candidate probed and
\* the path handed to vault.create have no folder component
C9_FallbackPathsInRoot ==
    \A c \in Creators :
        (FellBack(cn[c]) /\ "create" \in Range(cn[c].log)) =>
            /\ \A i \in DOMAIN cn[c].probes : SLASH \notin Range(cn[c].probes[i])
            /\ SLASH \notin Range(cn[c].filePath)
            /\ \E n \in 0..(Cardinality(cn[c].seen) + 1) :
                  cn[c].filePath = Cand(<<>>, cn[c].baseFilename, n)

\* createFolder failed and the path handed to vault.create starts with a slash
C9_Witness ==
    \E c \in Creators :
        /\ FellBack(cn[c]) /\ "create" \in Range(cn[c].log)
        /\ cn[c].filePath = <<SLASH>> \o cn[c].baseFilename \o <<MD>>

\* C10: a run whose registry call ended in 404, in another failure status or without
\* a record shows a notice and calls neither createFolder nor vault.create
C10_RegistryFailureWritesNothing ==
    \A c \in Creators :
        cn[c].resp \in FailedKinds \cup {"empty"} =>
            /\ cn[c].pc = "done"
            /\ Surfaced(cn[c].log)
            /\ Range(cn[c].log) \cap {"createFolder", "create", "created"} = {}

\* an ISBN search that found nothing ended with a notice
C10_Witness ==
    \E c \in Creators :
        /\ cn[c].cmd = "isbn" /\ cn[c].resp = "empty" /\ cn[c].pc = "done"
        /\ "notice:failed" \in Range(cn[c].log)

\* a run of the command got a record from the registry and createNote has run
\* up to vault.create or up to the exception that ended it
GotRecord(r) == r.resp = "ok" /\ r.pc \in {"creating", "done"}

\* C11: every run that got a record reaches vault.create, whatever the record and
\* the citation style are; no failure of the citation step ends createNote early
C11_CitationFailureStillCreates ==
    \A c \in Creators : GotRecord(cn[c]) => "create" \in Range(cn[c].log)

\* a record with the four required properties whose issued has no date-parts:
\* the formatter raised, the command showed its error notice and no note was
\* written
C11_Witness ==
    \E c \in Creators :
        /\ GotRecord(cn[c]) /\ cn[c].message = R_nodate
        /\ settings.citationStyle # "None"
        /\ cn[c].pc = "done" /\ "notice:error" \in Range(cn[c].log)
        /\ "create" \notin Range(cn[c].log)

\* the formatter of one of the eight styles has been called and is over
Formatter ==
    fx.pc = "returned" /\ fx.op = "FormatCitation" /\ fx.arg \in CitationStyles \ {"None"}

\* the properties every formatter asks for
RequiredProperties == {"author", "issued", "title", "container-title"}

\* C12: the formatter of each of the eight styles returns a string and never
\* throws, whatever properties of the record (date-parts of issued, given and
\* family of an author included) are present
C12_FormatterNeverThrows == Formatter => ~fx.thrown

\* the four required properties are there, issued has no date-parts, and the
\* formatter raised
C12_Witness ==
    /\ Formatter /\ RequiredProperties \subseteq fx.m.has
    /\ ~fx.m.issued.hasDP
    /\ fx.thrown

\* C13: with author, issued, title or container-title absent, the formatter of
\* each of the eight styles returns a string that starts with "Could not
\* generate" and does not throw
C13_FailClosed ==
    (Formatter /\ ~(RequiredProperties \subseteq fx.m.has)) =>
        /\ ~fx.thrown
        /\ fx.text # <<>> /\ fx.text[1] = "Could not generate "

\* a record without issued and without a container title went through the Oxford
\* formatter and came back as its diagnostic
C13_Witness ==
    /\ Formatter /\ fx.arg = "Oxford"
    /\ fx.m.has \cap RequiredProperties = {"author", "title"}
    /\ ~fx.thrown /\ fx.text = MissingData("Oxford Reference")

\* the modal of this run was closed without its button
Cancelled(r) == "close" \in Range(r.log)

\* C14: a DOI, ISBN or style modal that was closed without its button never calls
\* its submit callback: the run is over and nothing but the closing is on its
\* record: no fetch, no createFolder, no vault.create, no read, no modify, no
\* notice
C14_CancelCallsNothing ==
    /\ \A c \in Creators :
           Cancelled(cn[c]) =>
               cn[c].pc = "done" /\ cn[c].log = <<"close">> /\ cn[c].resp = ""
    /\ Cancelled(cs) =>
           cs.pc = "done" /\ cs.log = <<"close">> /\ cs.resp = "" /\ cs.pending = <<>>

\* an ISBN modal was opened and closed
C14_Witness ==
    \E c \in Creators : Cancelled(cn[c]) /\ cn[c].cmd = "isbn" /\ cn[c].pc = "done"

\* a style modal was closed after a style had been picked in it
C14_StyleModalClosed == Cancelled(cs) /\ cs.newStyle = "APA"

\* both generators of the metadata block have run on the record
BothBlocks == fx.pc = "returned" /\ fx.op = "Frontmatter"

\* the block of a note: what /^---([\s\S]*?)---/ finds at its start
MetadataBlock(content) == FrontmatterMatch(content).m0

\* C15: for one record and one access date the metadata block createNote writes
\* and the block updateYAMLFrontmatter generates are the same text, whatever
\* optional properties (ISBN, month and day of issued, authors) are absent or
\* empty
C15_SameMetadataBlock == BothBlocks => MetadataBlock(fx.text) = fx.text2

\* the record has an ISBN array with nothing in it: createNote wrote an ISBN line
\* and updateYAMLFrontmatter did not
C15_Witness ==
    /\ BothBlocks /\ Has(fx.m, "ISBN") /\ fx.m.ISBN = <<>>
    /\ IndexOf(fx.text, <<"ISBN: ", UNDEF, NL>>, 1) # 0
    /\ IndexOf(fx.text2, <<"ISBN: ">>, 1) = 0

\* the base filename has been built for one of the three filename styles
Named == fx.pc = "returned" /\ fx.op = "BaseFilename" /\ fx.arg \in FileNameStyles

\* the characters a filename must not contain
Forbidden == {"/", "\\", "?", "%", "*", ":", "|", "\"", "<", ">"}

\* C16: for every record and every filename style the base filename is not
\* empty, contains none of / \ ? % * : | " < > and neither starts nor ends with
\* white space
C16_FilenameSafe ==
    Named =>
        /\ ~fx.thrown
        /\ fx.text # <<>>
        /\ Range(fx.text) \cap Forbidden = {}
        /\ fx.text[1] \notin {" ", "\t", NL}
        /\ fx.text[Len(fx.text)] \notin {" ", "\t", NL}

\* a first author whose family name starts with a blank and carries a slash and a
\* colon, under Author (Year): the slash is replaced and the blank trimmed
C16_Witness ==
    /\ Named /\ fx.arg = "Author (Year)"
    /\ Has(fx.m, "author") /\ fx.m.author # <<>> /\ fx.m.author[1] = A_slash
    /\ fx.text = <<"O", " ", "Neil", " ", " ", "et al", " ", "(", "2015", ")">>

\* a title that is all punctuation, under Title: the fallback name
C16_TitleFallback ==
    /\ Named /\ fx.arg = "Title" /\ Has(fx.m, "title") /\ fx.m.title = << <<"?">> >>
    /\ fx.text = <<"Crossref Note">>

\* the record has a first author, and that author has a family name
HasFirstFamily(m) ==
    /\ Has(m, "author") /\ m.author # <<>>
    /\ m.author[1].hasFamily /\ m.author[1].family # <<>>

\* C17: under the filename style Author the base filename is the sanitized family
\* name of the first author, and it is "Untitled" when the record has no author
\* list, an empty one, or a first author without a family name
C17_AuthorOrUntitled ==
    (Named /\ fx.arg = "Author") =>
        IF HasFirstFamily(fx.m)
        THEN Sanitize(fx.m.author[1].family) # <<>> =>
                 fx.text = Sanitize(fx.m.author[1].family)
        ELSE fx.text = <<"Untitled">>

\* the first author has a given name and no family name, and the note is named
\* UnknownAuthor
C17_Witness ==
    /\ Named /\ fx.arg = "Author"
    /\ Has(fx.m, "author") /\ fx.m.author # <<>> /\ ~fx.m.author[1].hasFamily
    /\ fx.text = <<"UnknownAuthor">>

\* a record in full: the four required properties, a year, a first title, authors
\* with both names, and the access date
Complete(m) ==
    /\ RequiredProperties \cup {"date-accessed"} \subseteq m.has
    /\ m.issued.hasDP /\ m.issued.dp # <<>> /\ m.issued.dp[1] # <<>>
    /\ m.title # <<>> /\ m.author # <<>>
    /\ \A i \in DOMAIN m.author : m.author[i].hasGiven /\ m.author[i].hasFamily

\* the text refers to a DOI: a doi.org link or the DOI itself
DoiLinks ==
    {"*. Available at: [https://doi.org/", "; Available from: [https://doi.org/",
     " https://doi.org/"}
DoiReference(text) == Range(text) \cap (DoiLinks \cup {"10.1/x"}) # {}
UrlReference(text) == "http://u" \in Range(text)

\* C18: on a record in full, the citation of each of the eight styles refers to a
\* DOI only if the record has a DOI, to a URL only if it has a URL and no DOI,
\* and with neither it has no DOI link, no URL and no "undefined" in it
C18_DoiUrlTail ==
    (Formatter /\ Complete(fx.m)) =>
        /\ ~fx.thrown
        /\ DoiReference(fx.text) => HasDoi(fx.m)
        /\ UrlReference(fx.text) => ~HasDoi(fx.m) /\ HasUrl(fx.m)
        /\ (~HasDoi(fx.m) /\ ~HasUrl(fx.m)) => UNDEF \notin Range(fx.text)

\* a record in full with a URL and no DOI, in the Vancouver style: a doi.org link
\* to "undefined" and no URL
C18_Witness ==
    /\ Formatter /\ Complete(fx.m) /\ fx.arg = "Vancouver"
    /\ ~HasDoi(fx.m) /\ HasUrl(fx.m)
    /\ IndexOf(fx.text, <<"; Available from: [https://doi.org/", UNDEF, "].">>, 1) # 0
    /\ ~UrlReference(fx.text)

\* the atom that follows the first occurrence of the atom a, or <<>>
AfterAtom(text, a) ==
    LET i == IndexOf(text, <<a>>, 1)
    IN IF i = 0 \/ i = Len(text) THEN <<>> ELSE <<text[i + 1]>>

\* the value of `Date Accessed` in the metadata block of a note
DateAccessedOf(content) == AfterAtom(content, "Date Accessed: ")

\* the access date a Harvard or Canadian citation prints
AccessedInHarvard(content) == AfterAtom(content, "] (Accessed: ")
AccessedInCanadian(content) == AfterAtom(content, " [Accessed ")

\* createNote has built the content of a note whose citation shows an access date
ShowsAccessDate(r) ==
    /\ "create" \in Range(r.log)
    /\ \/ settings.citationStyle = "Harvard" /\ AccessedInHarvard(r.content) # <<>>
       \/ settings.citationStyle = "Canadian" /\ AccessedInCanadian(r.content) # <<>>

\* C19: in a note created with the Harvard or the Canadian style, the access date
\* printed in the citation is the YYYY-MM-DD value of Date Accessed in the note's
\* metadata block
C19_AccessDateInCitation ==
    \A c \in Creators :
        ShowsAccessDate(cn[c]) =>
            /\ DateAccessedOf(cn[c].content) # <<>>
            /\ settings.citationStyle = "Harvard" =>
                   AccessedInHarvard(cn[c].content) = DateAccessedOf(cn[c].content)
            /\ settings.citationStyle = "Canadian" =>
                   AccessedInCanadian(cn[c].content) = DateAccessedOf(cn[c].content)

\* a note created in the Canadian style from a record in full: the block carries
\* the day and the citation says "Accessed undefined"
C19_Witness ==
    \E c \in Creators :
        /\ ShowsAccessDate(cn[c]) /\ cn[c].rev = "Copy3" /\ cn[c].message = R_full
        /\ settings.citationStyle = "Canadian"
        /\ DateAccessedOf(cn[c].content) \in {<<Date(n)>> : n \in 0..MaxTicks}
        /\ AccessedInCanadian(cn[c].content) = <<UNDEF>>

\* the abstract section has been built
AbstractBuilt == fx.pc = "returned" /\ fx.op = "AbstractSection"

AbstractTitle == <<"<jats:title>", "Abstract", "</jats:title>">>
JatsTags == {"<jats:title>", "</jats:title>", "<jats:p>", "</jats:p>", "<jats:sec>", "</jats:sec>"}

\* the abstract starts with the title marker and goes on in <jats:p> paragraphs
TitleThenParagraphs(a) ==
    /\ MatchAt(a, AbstractTitle, 1)
    /\ Len(a) > 3 /\ a[4] = "<jats:p>"
    /\ \A i \in 4..Len(a) : a[i] \in JatsTags => a[i] \in {"<jats:p>", "</jats:p>"}

\* the text of the paragraphs: what is left of them without the tags
ParagraphText(a) ==
    LET NotTag(x) == x \notin JatsTags
    IN SelectSeq(SubSeq(a, 4, Len(a)), NotTag)

\* C20: an abstract made of the title marker <jats:title>Abstract</jats:title> and
\* <jats:p> paragraphs comes out under `## Abstract` as the text of the paragraphs
\* alone: no tag and nothing that was not in the abstract's own text
C20_AbstractIsParagraphText ==
    (AbstractBuilt /\ TitleThenParagraphs(fx.m.abstract)) =>
        fx.text = <<ABSTRACT, NL>> \o ParagraphText(fx.m.abstract) \o <<NL>>

\* <jats:title>Abstract</jats:title><jats:p>Text</jats:p> came out as
\* "undefined" followed by "Text"
C20_Witness ==
    /\ AbstractBuilt /\ fx.m.abstract = Abstract0
    /\ fx.text = <<ABSTRACT, NL, UNDEF, "Text", NL>>

\* C21: a DOI typed as https://doi.org/X and the same DOI typed as X make the
\* command query the registry for the same identifier X
C21_SameIdentifierQueried ==
    \A c \in Creators :
        (cn[c].pc = "fetching" /\ cn[c].cmd = "doi"
            /\ cn[c].typed \in {<<DOI0>>, <<DoiOrgPrefix, DOI0>>}) =>
                cn[c].apiUrl = ApiUrl("doi", <<DOI0>>)

\* the DOI went in with its prefix, in main - Copy (3).ts, and the request is for
\* the whole text
C21_Witness ==
    \E c \in Creators :
        /\ cn[c].pc = "fetching" /\ cn[c].cmd = "doi" /\ cn[c].rev = "Copy3"
        /\ cn[c].typed = <<DoiOrgPrefix, DOI0>>
        /\ cn[c].apiUrl =
               <<"https://api.crossref.org/works/", "https%3A%2F%2Fdoi.org%2F", "10.1%2Fx">>

\* in main - Copy.ts the prefix is taken off before the request
C21_PrefixStripped ==
    \E c \in Creators :
        /\ cn[c].pc = "fetching" /\ cn[c].cmd = "doi" /\ cn[c].rev = "Copy"
        /\ cn[c].typed = <<DoiOrgPrefix, DOI0>>
        /\ cn[c].apiUrl = <<"https://api.crossref.org/works/", "10.1%2Fx">>

(***************************************************************************)
(* updateYAMLFrontmatter and the order of the change-style flow            *)
(***************************************************************************)
\* updateYAMLFrontmatter has read the file
UpdateRead == cs.refetched /\ cs.pc \in {"upd_writing", "writing", "done"}

\* C22: when the content updateYAMLFrontmatter reads has no delimited block at its
\* start, the run fails with MissingMetadataBlock, shows it, and writes nothing;
\* no block is put in front of the content
C22_NoSilentPatch ==
    (UpdateRead /\ ~FrontmatterMatch(cs.updContent).found) =>
        /\ cs.pc = "done" /\ cs.err = "MissingMetadataBlock"
        /\ Range(cs.log) \cap {"modify", "modified"} = {}

\* the user removed the opening line during the fetch; updateYAMLFrontmatter found
\* no block and is writing a new block followed by all it read
C22_Witness ==
    /\ UpdateRead /\ cs.pc = "upd_writing"
    /\ ~FrontmatterMatch(cs.updContent).found
    /\ cs.pending = NewFrontmatterString(cs.metadata, Date(clock)) \o <<NL>> \o cs.updContent

\* the document a second changeCitationStyle with the same style and the same
\* record writes, run on the document the first one wrote
SecondContent == Finalize([cs EXCEPT !.fileContent = cs.pending], cs.metadata).pending

\* C23: the document written by a second application of changeCitationStyle with
\* the same style and record is the document the first application wrote
C23_SecondChangeIdentical ==
    (Succeeded /\ Chosen) => SecondContent = cs.pending

\* a first application has written; a second one puts one more blank line under the
\* opening delimiter
C23_Witness ==
    /\ Succeeded /\ Chosen
    /\ FrontmatterMatch(cs.pending).found
    /\ SubSeq(cs.pending, 1, 3) = <<DASH3, NL, NL>>
    /\ SubSeq(SecondContent, 1, 4) = <<DASH3, NL, NL, NL>>
    /\ Len(SecondContent) > Len(cs.pending)

\* the positions of a call in the log of the style command
Positions(x) == {i \in DOMAIN cs.log : cs.log[i] = x}

\* C24: in a run of changeCitationStyle the first read of the file comes before the
\* registry is asked, the registry is asked before any write to the file is called,
\* and the registry is asked at most once, whatever its answer
C24_ReadFetchWriteOrder ==
    /\ \A f \in Positions("fetch") : \E rd \in Positions("read") : rd < f
    /\ \A f \in Positions("fetch") :
          \A w \in Positions("modify") \cup Positions("modified") : f < w
    /\ Cardinality(Positions("fetch")) <= 1

\* a run that read, asked the registry once, and then wrote twice
C24_Witness ==
    /\ Succeeded /\ cs.refetched
    /\ Positions("fetch") # {}
    /\ Cardinality(Positions("modified")) = 2

\* a run whose one request failed: it is over and nothing was written
C24_FailedFetchNotRepeated ==
    /\ cs.pc = "done" /\ cs.err = "RefetchFailed"
    /\ Cardinality(Positions("fetch")) = 1
    /\ Positions("modify") = {}

(***************************************************************************)
(* The collision loop and vault.create                                     *)
(***************************************************************************)
\* the folder the candidates of a run are built in
ProbedFolder(r) == IF FellBack(r) THEN <<>> ELSE TargetFolder

\* the files the run saw that are named B.md or B (n).md in that folder
NamedLikeBase(r) ==
    {p \in r.seen : \E n \in 0..(Cardinality(r.seen) + 1) :
                        p = Cand(ProbedFolder(r), r.baseFilename, n)}

\* C25: the collision loop ends, and it asks the vault for at most one path more
\* than there are files named B.md or B (n).md in the folder
C25_ProbesBounded ==
    \A c \in Creators :
        cn[c].probes # <<>> => Len(cn[c].probes) <= 1 + Cardinality(NamedLikeBase(cn[c]))

\* main - Copy.ts on a title without a usable character: `Crossref Note.md` is
\* taken, the loop goes on with ` (1).md`, taken as well, and ends at ` (2).md`
C25_Witness ==
    \E c \in Creators :
        /\ cn[c].rev = "Copy" /\ "create" \in Range(cn[c].log)
        /\ cn[c].probes = << <<"Crossref Note", MD>>, <<" (", "1", ")", MD>>,
                             <<" (", "2", ")", MD>> >>
        /\ Cardinality(NamedLikeBase(cn[c])) = 1

\* main - Copy (3).ts keeps the bound
C25_BoundedInCopy3 ==
    \A c \in Creators :
        (cn[c].probes # <<>> /\ cn[c].rev = "Copy3") =>
            Len(cn[c].probes) <= 1 + Cardinality(NamedLikeBase(cn[c]))

\* C26: the path createNote hands to vault.create names no file that was there when
\* the loop probed last, and no step of the command changes or removes an entry
\* that is in the vault
C26_CreateNeverOverwrites ==
    [][/\ \A c \in Creators :
             (cn[c].pc # "creating" /\ cn'[c].pc = "creating") =>
                 NormalizePath(cn'[c].filePath) \notin Files(vault)
       /\ \A p \in DOMAIN vault : p \in DOMAIN vault' /\ vault'[p] = vault[p]]_vars

\* createFolder failed, the loop probed `/Deep Learning.md`, found nothing, and
\* vault.create is called on a path that names the note `Deep Learning.md`
C26_Witness ==
    \E c \in Creators :
        /\ cn[c].pc = "creating" /\ FellBack(cn[c])
        /\ cn[c].probes = << <<SLASH>> \o B0 \o <<MD>> >>
        /\ cn[c].filePath = <<SLASH>> \o B0 \o <<MD>>
        /\ B0 \o <<MD>> \in Files(vault)

\* vault.create rejected the call and the note that was there is as it was
C26_ExistingNoteKept ==
    \E c \in Creators :
        /\ cn[c].pc = "done" /\ FellBack(cn[c])
        /\ cn[c].filePath = <<SLASH>> \o B0 \o <<MD>>
        /\ "created" \notin Range(cn[c].log) /\ "notice:error" \in Range(cn[c].log)
        /\ B0 \o <<MD>> \in Files(vault)
        /\ vault[B0 \o <<MD>>].content # cn[c].content

\* no step of the command changes or removes an entry that is in the vault
C26_EntriesKept ==
    [][\A p \in DOMAIN vault : p \in DOMAIN vault' /\ vault'[p] = vault[p]]_vars

(***************************************************************************)
(* createNote's notes under the style command                              *)
(***************************************************************************)
\* the notes createNote writes from the record R_full, which has author, issued,
\* title and container-title
CreatedFromFull == {NoteContent(R_full, style, Date(0)).text : style \in {"Harvard", "None"}}

\* C27: when changeCitationStyle has read a note that createNote wrote from a record
\* with the four required properties, the completeness check passes: the run goes on
\* to the rewrite, the registry is not asked, and no stored DOI is needed
C27_CreatedNoteIsComplete ==
    (ReadHappened /\ cs.fileContent \in CreatedFromFull) =>
        /\ MetadataComplete(YamlLoad(FrontmatterMatch(cs.fileContent).m1))
        /\ "fetch" \notin Range(cs.log)
        /\ cs.pc \in {"writing", "done"}
        /\ cs.err \notin {"MissingDoi", "RefetchFailed"}

\* the note of createNote was read, none of the four properties is in its block,
\* and the registry is being asked with the DOI stored in it
C27_Witness ==
    /\ ReadHappened /\ cs.fileContent \in CreatedFromFull
    /\ MissingRequired(YamlLoad(FrontmatterMatch(cs.fileContent).m1))
    /\ YamlLoad(FrontmatterMatch(cs.fileContent).m1).has \cap RequiredProperties = {}
    /\ cs.pc = "fetching" /\ cs.log = <<"read", "fetch">>

(***************************************************************************)
(* The style dialog                                                        *)
(***************************************************************************)
\* what the dropdown of the dialog shows: the value of setValue (line 1065) until
\* the user picks another one
DisplayedStyle == IF cs.newStyle = UNDEF THEN settings.citationStyle ELSE cs.newStyle

\* `Change Style` was pressed: onSubmit(this.newStyle) has been called
StyleSubmitted == cs.pc \notin {"idle", "modal"} /\ cs.err # "closed"

\* C28: the style handed to changeCitationStyle by `Change Style` is the style the
\* dropdown displays, settings.citationStyle when the dropdown was not touched; it
\* is one of the nine styles and never undefined
C28_SubmitsDisplayedStyle ==
    StyleSubmitted => cs.newStyle = DisplayedStyle /\ cs.newStyle \in CitationStyles

\* the dropdown shows the configured style, was not touched, and changeCitationStyle
\* runs with undefined
C28_Witness ==
    /\ StyleSubmitted /\ cs.pc = "reading"
    /\ settings.citationStyle \in CitationStyles
    /\ DisplayedStyle = settings.citationStyle
    /\ cs.newStyle = UNDEF

(***************************************************************************)
(* Overlapping work                                                        *)
(***************************************************************************)
\* C29: when the user typed into the note while changeCitationStyle was waiting for
\* the registry, the content the run writes last still holds what was typed
C29_NoLostUpdate ==
    (cs.typedAt = "fetching" /\ cs.refetched /\ cs.pc \in {"writing", "done"}
        /\ cs.err = "") =>
            "user edit" \in Range(cs.pending)

\* typed during the fetch: updateYAMLFrontmatter read it and wrote it back, and the
\* last write, built on the content read before the fetch, removed it from the file
C29_Witness ==
    /\ Succeeded /\ cs.refetched /\ cs.typedAt = "fetching"
    /\ "user edit" \in Range(cs.updContent)
    /\ "user edit" \notin Range(cs.fileContent)
    /\ "user edit" \notin Range(cs.pending)
    /\ vault[cs.file].content = cs.pending

\* two runs of createNote that wait for vault.create at the same time, built on
\* the same base filename in the same folder
SameTarget(c, d) ==
    /\ c # d
    /\ cn[c].pc = "creating" /\ cn[d].pc = "creating"
    /\ cn[c].baseFilename = cn[d].baseFilename
    /\ cn[c].folderPath = cn[d].folderPath
    /\ ~FellBack(cn[c]) /\ ~FellBack(cn[d])

\* C30: two overlapping note-creation commands with the same base filename and
\* folder hand two different paths to vault.create, so that both notes are written
C30_OverlappingCreatesDiffer ==
    \A c, d \in DOMAIN cn : SameTarget(c, d) => cn[c].filePath # cn[d].filePath

\* both runs of main - Copy (3).ts probed before either note was there, and both
\* wait for vault.create on the same path
C30_Witness ==
    /\ DOMAIN cn = Overlapping
    /\ SameTarget(1, 2)
    /\ cn[1].rev = "Copy3" /\ cn[2].rev = "Copy3"
    /\ cn[1].filePath = cn[2].filePath
    /\ NormalizePath(cn[1].filePath) \notin DOMAIN vault

\* one note was written; vault.create rejected the other run's call on the same path
C30_SecondRejected ==
    /\ DOMAIN cn = Overlapping
    /\ cn[1].pc = "done" /\ cn[2].pc = "done"
    /\ cn[1].filePath = cn[2].filePath /\ ~FellBack(cn[1]) /\ ~FellBack(cn[2])
    /\ "created" \in Range(cn[1].log)
    /\ "create" \in Range(cn[2].log) /\ "created" \notin Range(cn[2].log)
    /\ "notice:error" \in Range(cn[2].log)

=============================================================================
